---------------------------- MODULE Spec2Model ----------------------------
(***************************************************************************)
(* State-machine model of the capture worker of the surveillance panel     *)
(* (surveillance_panel/src/CameraStream.cpp, class CaptureWorker): the     *)
(* frame loop, the whole-frame / ROI / mask-centroid tripwire debouncers,  *)
(* the centroid tracker and the per-track line-crossing and loitering      *)
(* state machines.                                                         *)
(*                                                                         *)
(* Representation.                                                         *)
(*  - Time is QDateTime::currentMSecsSinceEpoch() in milliseconds.  The    *)
(*    clock advances in steps of TickMs and starts at Epoch0, a value      *)
(*    larger than every threshold of the program (the real epoch clock is  *)
(*    about 1.7e12), so "now - 0" exceeds every debounce interval, as in   *)
(*    the program.                                                         *)
(*  - Normalized coordinates in [0,1] are integers k standing for k/GridN. *)
(*    Comparisons of floating-point expressions are cross-multiplied to    *)
(*    integer comparisons, which is exact on this grid.                    *)
(*  - A captured frame is represented by what the image pipeline computes  *)
(*    from it: the motion score, the ROI score, the moments of the mask    *)
(*    and the detections returned by ObjectDetector::infer.                *)
(*  - FPS accounting (m_frameCount, m_lastFrameTime) touches no state the  *)
(*    analytics read and is left out.                                      *)
(***************************************************************************)
EXTENDS Integers, Sequences, FiniteSets, TLC

(***************************************************************************)
(* Program constants                                                       *)
(***************************************************************************)
AI_PROCESS_INTERVAL == 5
TRACK_TIMEOUT_MS == 2000
TRIPWIRE_ALERT_DEBOUNCE_MS == 2000
LOITERING_THRESHOLD_MS == 8000
MOTION_DEBOUNCE_MS == 2000
ROI_DEBOUNCE_MS == 3000
TRIPWIRE_DEBOUNCE_MS == 2000
\* MAX_TRACK_DISTANCE = 0.1 = 1 / MAX_TRACK_DISTANCE_DEN
MAX_TRACK_DISTANCE_DEN == 10
\* LINE_EPSILON = 1e-4 = 1 / LINE_EPSILON_DEN
LINE_EPSILON_DEN == 10000
\* "within reasonable distance (e.g., 50 pixels)"
TRIPWIRE_MAX_PIXEL_DISTANCE == 50
\* "Too little motion to track": m00 < 100
MIN_MOTION_AREA == 100
\* frame size requested in CaptureWorker::start
FrameW == 640
FrameH == 480
\* m_motionResetTimer / m_roiAlertResetTimer / m_tripwireAlertResetTimer->setInterval
MOTION_RESET_INTERVAL_MS == 2000
ROI_ALERT_RESET_INTERVAL_MS == 2000
TRIPWIRE_ALERT_RESET_INTERVAL_MS == 2000
MAX_CAMERA_SLOTS == 4

(***************************************************************************)
(* Representation parameters and bounds                                    *)
(***************************************************************************)
\* normalized coordinate k stands for k / GridN
GridN == 40
\* clock granularity: every threshold of the program is a multiple of it
TickMs == TRACK_TIMEOUT_MS \div 2
\* initial clock value, beyond every threshold
Epoch0 == LOITERING_THRESHOLD_MS + TRACK_TIMEOUT_MS
\* number of clock ticks explored: motion path, tracker
MaxTicks == 5
MaxTrackerTicks == 3
\* number of clock ticks explored with every subsystem enabled at once
MaxJointTicks == 1
\* largest track id allocated when a tripwire is explored
MaxCrossingTrackId == 1
\* largest track id allocated
MaxTrackId == 2
\* largest number of detections returned by one infer call
MaxDets == 2
\* loitering is explored at the coarsest step that keeps a track alive
LoiterTickMs == TRACK_TIMEOUT_MS
MaxLoiterTicks == 8
MaxLoiterTrackId == 1
\* number of camera pipelines feeding the alert log
MaxCameras == 2
\* slot invocations waiting in the worker's event queue
MaxPosted == 3
\* capability slots posted to a worker and not yet run
MaxPending == 2
\* snapshot alerts taken on request
MaxSnapshots == 2
\* worker signals waiting in the main thread's event queue
MaxQueued == 3
\* empty reads in a row and frames of a pipeline that are told apart
MaxEmptyReads == 2
MaxFrames == 3
\* clock ticks, frames told apart and alerts kept when the alert-active
\* flags are explored
MaxFlagTicks == 3
\* alerts kept in the log and frames told apart when every pipeline feeds
\* the log
MaxAlerts == 3
MaxAlertFrames == 1
MaxFlagFrames == 1
MaxFlagAlerts == 1
MaxIndices == 2
MaxIdTicks == 2
MaxEntries == 5

Abs(x) == IF x < 0 THEN -x ELSE x

VARIABLES
    now,                     \* QDateTime::currentMSecsSinceEpoch()
    m_running,               \* CaptureWorker::m_running
    captureOpened,           \* m_capture.isOpened()
    timerActive,             \* m_timer is started
    m_motionEnabled,
    m_motionSensitivity,
    m_lastMotionTime,
    m_roiNorm,
    m_hasRoi,
    m_lastRoiAlertTime,
    m_tripwire,              \* <<m_tripwireStartNorm, m_tripwireEndNorm>>
    m_hasTripwire,
    m_lastTripwireAlertTime,
    m_prevSide,
    m_hasPrevSide,
    m_detector,              \* "null" or the name of a detector object
    m_aiEnabled,
    m_aiFrameCounter,
    m_tracks,                \* QMap<int, TrackState>
    m_nextTrackId,
    emitted,                 \* signals emitted by the last handler
    trackerRun,              \* observer: the last updateTracks invocation
    history,                 \* observer: what a listener has seen so far, and
                             \* the line of the last mask-centroid measurement
    streams,                 \* the CameraStream objects, by camera number
    toWorker,                \* slot invocations queued to a worker's thread
    toMain,                  \* worker signals queued to the main thread
    m_alerts,                \* AlertLogModel::m_alerts
    lastCall,                \* observer: the call made by the last step
    observed,                \* observer: what the calls so far have shown
    cameraManager,           \* the CameraManager object: m_configs, m_cameras
    executing                \* the ObjectDetector method each thread is in

vars == <<now, m_running, captureOpened, timerActive, m_motionEnabled,
          m_motionSensitivity, m_lastMotionTime, m_roiNorm, m_hasRoi,
          m_lastRoiAlertTime, m_tripwire, m_hasTripwire,
          m_lastTripwireAlertTime, m_prevSide, m_hasPrevSide, m_detector,
          m_aiEnabled, m_aiFrameCounter, m_tracks, m_nextTrackId, emitted,
          trackerRun, history, streams, toWorker, toMain, m_alerts, lastCall,
          observed, cameraManager, executing>>

(***************************************************************************)
(* Inputs                                                                  *)
(***************************************************************************)
\* m_detector->classNames(): index = class id (0-based in the program)
ClassNames == <<"person", "chair">>
TrackedClasses == {"person", "car", "bicycle", "dog", "cat"}

\* detectors the worker can be handed: one that loaded, one that did not
Detectors == {"yolo", "broken"}
DetectorLoaded(d) == d = "yolo"

\* bounding boxes (pixels) returned by infer; their centres are grid points
Boxes == { [x |-> 288, y |-> 216, width |-> 32, height |-> 48],   \* centre (19,20)
           [x |-> 320, y |-> 216, width |-> 32, height |-> 48],   \* centre (21,20)
           [x |-> 352, y |-> 216, width |-> 32, height |-> 48] }  \* centre (23,20)
Detections == [classId : {0}, box : Boxes]
                 \cup { [classId |-> 1, box |-> CHOOSE b \in Boxes : b.x = 320],
                        [classId |-> 7, box |-> CHOOSE b \in Boxes : b.x = 320] }

RECURSIVE SeqsUpTo(_, _)
SeqsUpTo(S, n) ==
    IF n = 0 THEN { <<>> }
    ELSE LET shorter == SeqsUpTo(S, n - 1)
         IN  shorter \cup { Append(q, e) : q \in { r \in shorter : Len(r) = n - 1 }, e \in S }

\* ROI polygons (normalized grid): a square around (21..23, 20), a polygon
\* of two points (m_hasRoi is true but no polygon is formed), the empty list
RoiSquare == << <<20, 18>>, <<26, 18>>, <<26, 22>>, <<20, 22>> >>
RoiTwoPoints == << <<20, 18>>, <<26, 22>> >>
RoiPolygons == { RoiSquare, RoiTwoPoints, <<>> }

\* tripwires (normalized grid): horizontal and vertical through the centre
TripwireH == << <<0, 20>>, <<40, 20>> >>
TripwireV == << <<20, 0>>, <<20, 40>> >>
Tripwires == { TripwireH, TripwireV }
NoPoint == <<0, 0>>

\* motion_sensitivity values and motion scores (percent of foreground pixels)
Sensitivities == {50, 100}
Scores == {0, 1, 6}
\* centroid of the motion mask, pixels
MaskCentroids == { <<320, 400>>, <<320, 250>>, <<320, 230>>, <<300, 240>>, <<340, 240>> }

(***************************************************************************)
(* Signals                                                                 *)
(***************************************************************************)
\* the signals a handler emitted, by signal name.  gap: milliseconds since
\* the previous signal of the same kind (of the same track for per-track
\* signals) as a listener measures it, -1 when there was none
\* sameRoi / sameTripwire: no setRoiPolygon or clearRoi (setTripwire or
\* clearTripwire) was processed since the previous signal of the kind
NoSignals ==
    [motionDetected |-> {}, roiMotionDetected |-> {}, tripwireCrossed |-> {},
     trackCrossedTripwire |-> {}, loiteringDetected |-> {}, errorOccurred |-> {},
     aiDetectionsReady |-> {}, frameCaptured |-> {}]
GapSince(last, t) == IF last = 0 THEN -1 ELSE t - last
Min(a, b) == IF a < b THEN a ELSE b

NoRun == [ran |-> FALSE]

(***************************************************************************)
(* Tracker helpers                                                         *)
(***************************************************************************)
\* TrackState() followed by the assignments of the "Create new track" branch
NewTrack(id, label, c, t) ==
    [id |-> id, label |-> label, centroid |-> c, prevCentroid |-> c,
     firstSeenMs |-> t, lastSeenMs |-> t, insideRoi |-> FALSE,
     loiterAlertSent |-> FALSE, lastTripwireAlertMs |-> 0, enteredRoiMs |-> 0]

\* label of a detection: classNames[classId] when in range, else "unknown"
LabelOf(det, classNames) ==
    IF det.classId >= 0 /\ det.classId < Len(classNames)
    THEN classNames[det.classId + 1] ELSE "unknown"

\* ((x + w/2) / frameWidth, (y + h/2) / frameHeight) on the grid
CentroidOf(box, frameWidth, frameHeight) ==
    << ((2 * box.x + box.width) * GridN) \div (2 * frameWidth),
       ((2 * box.y + box.height) * GridN) \div (2 * frameHeight) >>

\* the trackedDetections list: detections of a tracked class, in input order
RECURSIVE TrackedDetections(_, _, _, _)
TrackedDetections(dets, classNames, frameWidth, frameHeight) ==
    IF dets = <<>> THEN <<>>
    ELSE LET det == Head(dets)
             label == LabelOf(det, classNames)
             rest == TrackedDetections(Tail(dets), classNames, frameWidth, frameHeight)
         IN  IF label \in TrackedClasses
             THEN << [centroid |-> CentroidOf(det.box, frameWidth, frameHeight),
                      label |-> label] >> \o rest
             ELSE rest

\* squared Euclidean distance, grid units
Dist2(p, q) == (p[1] - q[1]) * (p[1] - q[1]) + (p[2] - q[2]) * (p[2] - q[2])

\* a slip: the comparison admits a track at exactly MAX_TRACK_DISTANCE
CloserOrEqual(d2, bound2) == d2 <= bound2
\* dist < bound, both given by their squares (sqrt is monotone)
CloserThan(d2, bound2) == d2 < bound2

\* MAX_TRACK_DISTANCE squared, grid units (exact: GridN is a multiple of 10)
MaxDist2 == (GridN \div MAX_TRACK_DISTANCE_DEN) * (GridN \div MAX_TRACK_DISTANCE_DEN)

\* the inner loop over m_tracks (QMap iterates in ascending key order):
\* returns the id of the closest track within MAX_TRACK_DISTANCE, or -1
RECURSIVE FindBestTrack(_, _, _, _, _, _)
FindBestTrack(tracks, c, id, lastId, bestTrackId, bestDistance2) ==
    IF id > lastId THEN bestTrackId
    ELSE IF id \in DOMAIN tracks
            /\ CloserThan(Dist2(tracks[id].centroid, c), bestDistance2)
         THEN FindBestTrack(tracks, c, id + 1, lastId, id, Dist2(tracks[id].centroid, c))
         ELSE FindBestTrack(tracks, c, id + 1, lastId, bestTrackId, bestDistance2)

\* the track a detection is matched to, -1 when a track has to be created
MatchTrack(tracks, c, nextId) ==
    FindBestTrack(tracks, c, 1, nextId - 1, -1, MaxDist2)

\* "Update existing track"
TouchTrack(track, c, t) ==
    [track EXCEPT !.prevCentroid = track.centroid, !.centroid = c, !.lastSeenMs = t]

\* the assignment loop over trackedDetections.  st = [tracks, nextId,
\* updated (the QSet updatedTrackIds), assigns (observer: one entry per
\* detection, with the track map the detection was compared against)]
RECURSIVE AssignLoop(_, _, _)
AssignLoop(dwcs, st, t) ==
    IF dwcs = <<>> THEN st
    ELSE LET dwc == Head(dwcs)
             best == MatchTrack(st.tracks, dwc.centroid, st.nextId)
             seen == [i \in DOMAIN st.tracks |-> st.tracks[i].centroid]
         IN  IF best >= 0
             THEN AssignLoop(Tail(dwcs),
                     [tracks |-> [st.tracks EXCEPT ![best] = TouchTrack(@, dwc.centroid, t)],
                      nextId |-> st.nextId,
                      updated |-> st.updated \cup {best},
                      assigns |-> Append(st.assigns,
                                    [centroid |-> dwc.centroid, track |-> best,
                                     created |-> FALSE, seen |-> seen])], t)
             ELSE AssignLoop(Tail(dwcs),
                     [tracks |-> [i \in DOMAIN st.tracks \cup {st.nextId} |->
                                    IF i = st.nextId
                                    THEN NewTrack(st.nextId, dwc.label, dwc.centroid, t)
                                    ELSE st.tracks[i]],
                      nextId |-> st.nextId + 1,
                      updated |-> st.updated \cup {st.nextId},
                      assigns |-> Append(st.assigns,
                                    [centroid |-> dwc.centroid, track |-> st.nextId,
                                     created |-> TRUE, seen |-> seen])], t)

(***************************************************************************)
(* ROI occupancy, loitering, per-track line crossing                       *)
(***************************************************************************)
\* one edge test of the ray casting: (yi > y) != (yj > y) and
\* x < (xj - xi) * (y - yi) / (yj - yi) + xi, the division cross-multiplied
EdgeCrossed(pi, pj, point) ==
    /\ (pi[2] > point[2]) # (pj[2] > point[2])
    /\ IF pj[2] - pi[2] > 0
       THEN (point[1] - pi[1]) * (pj[2] - pi[2]) < (pj[1] - pi[1]) * (point[2] - pi[2])
       ELSE (point[1] - pi[1]) * (pj[2] - pi[2]) > (pj[1] - pi[1]) * (point[2] - pi[2])

RECURSIVE RayCast(_, _, _, _, _)
RayCast(roi, point, i, j, inside) ==
    IF i > Len(roi) THEN inside
    ELSE RayCast(roi, point, i + 1, i,
                 IF EdgeCrossed(roi[i], roi[j], point) THEN ~inside ELSE inside)

pointInRoi(point, roi, hasRoi) ==
    IF ~hasRoi \/ Len(roi) < 3 THEN FALSE
    ELSE RayCast(roi, point, 1, Len(roi), FALSE)

\* a slip: a track that leaves the ROI keeps its loitering mark
updateRoiStatusKeepingMark(track, currentTime, roi, hasRoi) ==
    LET nowInside == pointInRoi(track.centroid, roi, hasRoi)
    IN  IF nowInside
        THEN IF ~track.insideRoi
             THEN [track EXCEPT !.enteredRoiMs = currentTime, !.insideRoi = nowInside]
             ELSE [track EXCEPT !.insideRoi = nowInside]
        ELSE IF track.insideRoi
             THEN [track EXCEPT !.enteredRoiMs = 0, !.insideRoi = nowInside]
             ELSE [track EXCEPT !.insideRoi = nowInside]
\* CaptureWorker::updateRoiStatus
updateRoiStatus(track, currentTime, roi, hasRoi) ==
    LET nowInside == pointInRoi(track.centroid, roi, hasRoi)
    IN  IF nowInside
        THEN IF ~track.insideRoi
             THEN [track EXCEPT !.enteredRoiMs = currentTime, !.insideRoi = nowInside]
             ELSE [track EXCEPT !.insideRoi = nowInside]
        ELSE IF track.insideRoi
             THEN [track EXCEPT !.enteredRoiMs = 0, !.loiterAlertSent = FALSE,
                                !.insideRoi = nowInside]
             ELSE [track EXCEPT !.insideRoi = nowInside]

\* a slip: the threshold itself does not count yet
LoiteringFiresPastThreshold(track, currentTime) ==
    /\ track.insideRoi
    /\ ~track.loiterAlertSent
    /\ currentTime - track.enteredRoiMs > LOITERING_THRESHOLD_MS
\* whether checkLoitering emits loiteringDetected for the track
LoiteringFires(track, currentTime) ==
    /\ track.insideRoi
    /\ ~track.loiterAlertSent
    /\ currentTime - track.enteredRoiMs >= LOITERING_THRESHOLD_MS

\* a slip: the alert is emitted but loiterAlertSent is not set
checkLoiteringUnmarked(track, currentTime) == track
checkLoitering(track, currentTime) ==
    IF LoiteringFires(track, currentTime)
    THEN [track EXCEPT !.loiterAlertSent = TRUE]
    ELSE track

\* cross product, grid units: the normalized value is this / GridN^2
computeSideOfLine(point, tripwire) ==
    LET x1 == tripwire[1][1]
        y1 == tripwire[1][2]
        x2 == tripwire[2][1]
        y2 == tripwire[2][2]
    IN  (point[1] - x1) * (y2 - y1) - (point[2] - y1) * (x2 - x1)

getCrossingDirection(prevSide, currSide) ==
    IF prevSide < 0 /\ currSide > 0 THEN "left to right"
    ELSE IF prevSide > 0 /\ currSide < 0 THEN "right to left"
    ELSE "unknown"

\* std::abs(side) > LINE_EPSILON, for a side given in grid units
AboveEpsilon(side) == Abs(side) * LINE_EPSILON_DEN > GridN * GridN

\* a slip: a track is still skipped when the interval has just passed
TrackDebouncedAtInterval(track, currentTime) ==
    currentTime - track.lastTripwireAlertMs <= TRIPWIRE_ALERT_DEBOUNCE_MS
\* the debounce test of checkLineCrossing: TRUE when the track is skipped
TrackDebounced(track, currentTime) ==
    currentTime - track.lastTripwireAlertMs < TRIPWIRE_ALERT_DEBOUNCE_MS

\* whether checkLineCrossing emits trackCrossedTripwire for the track
LineCrossingFires(track, currentTime, tripwire) ==
    LET prevSide == computeSideOfLine(track.prevCentroid, tripwire)
        currSide == computeSideOfLine(track.centroid, tripwire)
    IN  /\ track.centroid # track.prevCentroid
        /\ ~TrackDebounced(track, currentTime)
        /\ AboveEpsilon(prevSide)
        /\ AboveEpsilon(currSide)
        /\ prevSide * currSide < 0

\* a slip: the crossing is emitted but lastTripwireAlertMs is not updated
checkLineCrossingUnstamped(track, currentTime, tripwire) == track
checkLineCrossing(track, currentTime, tripwire) ==
    IF LineCrossingFires(track, currentTime, tripwire)
    THEN [track EXCEPT !.lastTripwireAlertMs = currentTime]
    ELSE track

\* a slip: a track seen exactly TRACK_TIMEOUT_MS ago is removed as well
IsStaleAtTimeout(track, currentTime) == currentTime - track.lastSeenMs >= TRACK_TIMEOUT_MS
\* a track cleanupStaleTracks removes
IsStale(track, currentTime) == currentTime - track.lastSeenMs > TRACK_TIMEOUT_MS

cleanupStaleTracks(tracks, currentTime) ==
    [i \in { k \in DOMAIN tracks : ~IsStale(tracks[k], currentTime) } |-> tracks[i]]

EmptyTracks == [i \in {} |-> 0]

(***************************************************************************)
(* updateTracks: result [tracks, nextId, updated, assigns, preRoi (the     *)
(* tracks after the assignment), preCleanup (the tracks before eviction),  *)
(* loiter, crossed (the tracks a signal is emitted for)]                   *)
(***************************************************************************)
\* the three per-track loops after the assignment, for one updated track
\* (updateRoiStatus and checkLoitering, then checkLineCrossing when a
\* tripwire is set; each touches only its own track)
RoiChecked(track, currentTime, roi, hasRoi) ==
    updateRoiStatus(track, currentTime, roi, hasRoi)
LoiterChecked(track, currentTime, roi, hasRoi) ==
    checkLoitering(RoiChecked(track, currentTime, roi, hasRoi), currentTime)
CrossingChecked(track, currentTime, roi, hasRoi, tripwire, hasTripwire) ==
    IF hasTripwire
    THEN checkLineCrossing(LoiterChecked(track, currentTime, roi, hasRoi), currentTime,
                           tripwire)
    ELSE LoiterChecked(track, currentTime, roi, hasRoi)

Only(S) == CHOOSE v \in S : TRUE

\* updateTracks once the assignment loop has produced a
AfterAssignment(a, currentTime, roi, hasRoi, tripwire, hasTripwire) ==
    LET x == [i \in DOMAIN a.tracks |->
                IF i \in a.updated
                THEN CrossingChecked(a.tracks[i], currentTime, roi, hasRoi, tripwire,
                                     hasTripwire)
                ELSE a.tracks[i]]
    IN  [tracks |-> cleanupStaleTracks(x, currentTime),
         nextId |-> a.nextId,
         updated |-> a.updated,
         assigns |-> a.assigns,
         preRoi |-> a.tracks,
         preCleanup |-> x,
         loiter |-> { i \in a.updated :
                        LoiteringFires(RoiChecked(a.tracks[i], currentTime, roi, hasRoi),
                                       currentTime) },
         crossed |-> IF hasTripwire
                     THEN { i \in a.updated :
                              LineCrossingFires(
                                  LoiterChecked(a.tracks[i], currentTime, roi, hasRoi),
                                  currentTime, tripwire) }
                     ELSE {}]

updateTracks(tracks, nextId, detections, classNames, currentTime, roi, hasRoi, tripwire, hasTripwire) ==
    Only({ AfterAssignment(a, currentTime, roi, hasRoi, tripwire, hasTripwire) :
             a \in { AssignLoop(TrackedDetections(detections, classNames, FrameW, FrameH),
                                [tracks |-> tracks, nextId |-> nextId,
                                 updated |-> {}, assigns |-> <<>>], currentTime) } })

(***************************************************************************)
(* Motion path                                                             *)
(***************************************************************************)
\* motionScore > 10.0 - (sensitivity / 100.0) * 9.5, multiplied by 200
AboveThreshold(score, sensitivity) == score * 200 > 2000 - 19 * sensitivity

\* the rate limiters: currentTime - last > interval
\* slips: the interval taken in seconds against a clock in milliseconds
MotionElapsedInSeconds(currentTime, last) == currentTime - last > MOTION_DEBOUNCE_MS \div 1000
MotionElapsed(currentTime, last) == currentTime - last > MOTION_DEBOUNCE_MS
RoiElapsedInSeconds(currentTime, last) == currentTime - last > ROI_DEBOUNCE_MS \div 1000
RoiElapsed(currentTime, last) == currentTime - last > ROI_DEBOUNCE_MS
TripwireElapsedInSeconds(currentTime, last) == currentTime - last > TRIPWIRE_DEBOUNCE_MS \div 1000
TripwireElapsed(currentTime, last) == currentTime - last > TRIPWIRE_DEBOUNCE_MS

\* whether processMotionDetection emits motionDetected
MotionFires(mask, sensitivity, currentTime, lastMotionTime) ==
    /\ AboveThreshold(mask.motionScore, sensitivity)
    /\ MotionElapsed(currentTime, lastMotionTime)

\* whether processRoiMotion emits roiMotionDetected (it is called when m_hasRoi)
RoiFires(mask, roi, sensitivity, currentTime, lastRoiAlertTime) ==
    /\ Len(roi) >= 3
    /\ mask.roiArea # 0
    /\ AboveThreshold(mask.roiScore, sensitivity)
    /\ RoiElapsed(currentTime, lastRoiAlertTime)

\* curSide of processTripwire: the tripwire converted to pixels
MaskSide(centroid, tripwire) ==
    LET x1 == (tripwire[1][1] * FrameW) \div GridN
        y1 == (tripwire[1][2] * FrameH) \div GridN
        x2 == (tripwire[2][1] * FrameW) \div GridN
        y2 == (tripwire[2][2] * FrameH) \div GridN
    IN  (centroid[1] - x1) * (y2 - y1) - (centroid[2] - y1) * (x2 - x1)

RECURSIVE Gcd(_, _)
Gcd(a, b) == IF b = 0 THEN a ELSE Gcd(b, a % b)

\* a * b < 0 (the product of two pixel-scale sides is not formed)
OppositeSigns(a, b) == (a < 0 /\ b > 0) \/ (a > 0 /\ b < 0)

\* std::abs(curSide) / lineLength < 50: squared, after dividing curSide and
\* lineLength by the common factor g of the line's dx and dy (curSide is a
\* multiple of g)
NearLine(curSide, tripwire) ==
    LET dx == ((tripwire[2][1] - tripwire[1][1]) * FrameW) \div GridN
        dy == ((tripwire[2][2] - tripwire[1][2]) * FrameH) \div GridN
        g == Gcd(Abs(dx), Abs(dy))
    IN  (Abs(curSide) \div g) * (Abs(curSide) \div g)
          < TRIPWIRE_MAX_PIXEL_DISTANCE * TRIPWIRE_MAX_PIXEL_DISTANCE
              * ((dx \div g) * (dx \div g) + (dy \div g) * (dy \div g))

\* a slip: the previous side outlives a frame with too little motion
processTripwireKeepingSide(mask, tripwire, prevSide, hasPrevSide, currentTime, lastAlert) ==
    IF mask.m00 < MIN_MOTION_AREA
    THEN [prevSide |-> prevSide, hasPrevSide |-> hasPrevSide, fired |-> FALSE, direction |-> 0]
    ELSE LET curSide == MaskSide(mask.centroid, tripwire)
             fired == /\ hasPrevSide
                      /\ OppositeSigns(curSide, prevSide)
                      /\ NearLine(curSide, tripwire)
                      /\ TripwireElapsed(currentTime, lastAlert)
         IN  [prevSide |-> curSide, hasPrevSide |-> TRUE, fired |-> fired,
              direction |-> IF curSide > 0 /\ prevSide < 0 THEN 1 ELSE -1]
\* processTripwire: [prevSide, hasPrevSide, fired, direction]
processTripwire(mask, tripwire, prevSide, hasPrevSide, currentTime, lastAlert) ==
    IF mask.m00 < MIN_MOTION_AREA
    THEN [prevSide |-> prevSide, hasPrevSide |-> FALSE, fired |-> FALSE, direction |-> 0]
    ELSE LET curSide == MaskSide(mask.centroid, tripwire)
             fired == /\ hasPrevSide
                      /\ OppositeSigns(curSide, prevSide)
                      /\ NearLine(curSide, tripwire)
                      /\ TripwireElapsed(currentTime, lastAlert)
         IN  [prevSide |-> curSide, hasPrevSide |-> TRUE, fired |-> fired,
              direction |-> IF curSide > 0 /\ prevSide < 0 THEN 1 ELSE -1]

\* what the image pipeline computes from a frame for the motion path
NoMask == [motionScore |-> 0, roiArea |-> 0, roiScore |-> 0, m00 |-> 0, centroid |-> NoPoint]
MaskInputs(scores, centroids, withRoi, withTripwire) ==
    { [motionScore |-> s, roiArea |-> r.roiArea, roiScore |-> r.roiScore,
       m00 |-> w.m00, centroid |-> w.centroid] :
        s \in scores,
        r \in IF withRoi
              THEN {[roiArea |-> 0, roiScore |-> 0]} \cup [roiArea : {1000}, roiScore : scores]
              ELSE {[roiArea |-> 0, roiScore |-> 0]},
        w \in IF withTripwire
              THEN {[m00 |-> MIN_MOTION_AREA - 1, centroid |-> NoPoint]}
                     \cup [m00 : {MIN_MOTION_AREA}, centroid : centroids]
              ELSE {[m00 |-> 0, centroid |-> NoPoint]} }

(***************************************************************************)
(* The main thread: CameraStream objects and the AlertLogModel             *)
(***************************************************************************)
Cameras == 1..MaxCameras
\* the camera whose worker is modelled in detail by the variables above
WorkerCamera == 1

\* m_status: "Stopped", "Starting...", "Running" or "Error: %1"
Stopped == <<"Stopped">>
Starting == <<"Starting...">>
Running == <<"Running">>
ErrorStatus(error) == <<"Error: ", error>>
IsErrorStatus(status) == Len(status) = 2 /\ status[1] = "Error: "

\* CameraStream::CameraStream: a reset timer is the time it fires at, 0 when
\* it is not running; frame is the number of the frame held in
\* m_currentFrame, 0 for the null image; detections is the length of
\* m_currentDetections; source is the source selection of the stream and
\* workerSource that of its worker, which the stream writes directly
NewStream ==
    [running |-> FALSE, status |-> Stopped, hasFrame |-> FALSE, frame |-> 0,
     detections |-> 0,
     source |-> [m_cameraIndex |-> 0, m_isUrlSource |-> FALSE, m_sourceUrl |-> ""],
     workerSource |-> [m_cameraIndex |-> 0, m_isUrlSource |-> FALSE, m_sourceUrl |-> ""],
     motionActive |-> FALSE, roiAlertActive |-> FALSE, tripwireAlertActive |-> FALSE,
     motionResetAt |-> 0, roiAlertResetAt |-> 0, tripwireAlertResetAt |-> 0,
     autoSnapshotOnMotion |-> FALSE, autoSnapshotOnRoi |-> FALSE,
     autoSnapshotOnTripwire |-> FALSE,
     motionEnabled |-> FALSE, motionSensitivity |-> 50, aiEnabled |-> FALSE,
     roiNorm |-> <<>>, hasRoi |-> FALSE,
     tripwire |-> <<NoPoint, NoPoint>>, hasTripwire |-> FALSE]

\* no call observed
NoCall ==
    [op |-> "none", cam |-> 0, wasRunning |-> FALSE, before |-> <<>>, arg |-> <<>>,
     notified |-> <<>>, posted |-> <<>>, returned |-> TRUE]

\* nothing observed: emptyReads counts the empty reads since the last frame,
\* sinceInfer the frames since the last infer call (-1 before the first) and
\* inferGap the frames from the call before to the last call (0 before the
\* second); eventAt is the time the last event of a kind was received at,
\* sessionFrom the number of the last frame captured before the last start
NothingObserved ==
    [emptyReads |-> 0, sinceInfer |-> -1, inferGap |-> 0,
     frameNo |-> [cam \in Cameras |-> 0],
     sessionFrom |-> [cam \in Cameras |-> 0],
     eventAt |-> [cam \in Cameras |-> [motion |-> 0, roi |-> 0, tripwire |-> 0]]]

\* the CameraManager before main constructs it; the specifications of the
\* pipelines take their streams as given
NoCameraManager == [constructed |-> FALSE, m_configs |-> <<>>, m_cameras |-> <<>>]

\* the threads that reach the ObjectDetector of the CameraManager: the
\* worker thread of each camera and the main thread
MainThread == 0
Threads == Cameras \cup {MainThread}

(***************************************************************************)
(* Initial state: CaptureWorker::CaptureWorker, CameraStream::CameraStream *)
(***************************************************************************)
TrackIds == 1..MaxTrackId

\* sideOn is the tripwire the centroid's side was measured against on the
\* last frame the tripwire path processed, NoLine when that frame had too
\* little motion or the tripwire was set or cleared since
NoLine == <<>>
NoHistory ==
    [motionAt |-> 0, roiAt |-> 0, tripwireAt |-> 0,
     roiChanged |-> FALSE, tripwireChanged |-> FALSE, sideOn |-> NoLine,
     trackTripwireAt |-> [i \in TrackIds |-> 0],
     loiterInVisit |-> [i \in TrackIds |-> 0],
     loiterTotal |-> [i \in TrackIds |-> 0]]

Init ==
    /\ now = Epoch0
    /\ m_running = FALSE
    /\ captureOpened = FALSE
    /\ timerActive = FALSE
    /\ m_motionEnabled = FALSE
    /\ m_motionSensitivity = 50
    /\ m_lastMotionTime = 0
    /\ m_roiNorm = <<>>
    /\ m_hasRoi = FALSE
    /\ m_lastRoiAlertTime = 0
    /\ m_tripwire = <<NoPoint, NoPoint>>
    /\ m_hasTripwire = FALSE
    /\ m_lastTripwireAlertTime = 0
    /\ m_prevSide = 0
    /\ m_hasPrevSide = FALSE
    /\ m_detector = "null"
    /\ m_aiEnabled = FALSE
    /\ m_aiFrameCounter = 0
    /\ m_tracks = EmptyTracks
    /\ m_nextTrackId = 1
    /\ emitted = NoSignals
    /\ trackerRun = NoRun
    /\ history = NoHistory
    /\ streams = [cam \in Cameras |-> NewStream]
    /\ toWorker = <<>>
    /\ toMain = <<>>
    /\ m_alerts = <<>>
    /\ lastCall = NoCall
    /\ observed = NothingObserved
    /\ cameraManager = NoCameraManager
    /\ executing = [thread \in Threads |-> "none"]

motionVars == <<m_lastMotionTime, m_lastRoiAlertTime, m_lastTripwireAlertTime,
                m_prevSide, m_hasPrevSide>>
roiVars == <<m_roiNorm, m_hasRoi>>
tripwireVars == <<m_tripwire, m_hasTripwire>>
trackVars == <<m_tracks, m_nextTrackId>>
runVars == <<m_running, captureOpened, timerActive>>
aiVars == <<m_detector, m_aiEnabled, m_aiFrameCounter>>
\* the main thread: the streams, the queues between the threads, the alert log
appVars == <<streams, toWorker, toMain, m_alerts, lastCall, observed>>
\* a step in which the main thread does nothing
MainThreadIdle ==
    /\ lastCall' = NoCall
    /\ UNCHANGED <<cameraManager, executing, streams, toWorker, toMain, m_alerts, observed>>

(***************************************************************************)
(* The clock                                                               *)
(***************************************************************************)
Tick(stepMs, maxTicks) ==
    /\ now < Epoch0 + maxTicks * stepMs
    /\ now' = now + stepMs
    /\ emitted' = NoSignals
    /\ trackerRun' = NoRun
    /\ UNCHANGED <<runVars, m_motionEnabled, m_motionSensitivity, motionVars, roiVars,
                   tripwireVars, aiVars, trackVars, history>>
    /\ MainThreadIdle

(***************************************************************************)
(* CaptureWorker::start / stop                                             *)
(***************************************************************************)
CaptureWorker_start(opens) ==
    /\ IF m_running
       THEN /\ emitted' = NoSignals
            /\ UNCHANGED runVars
       ELSE IF ~opens
       THEN /\ emitted' = [NoSignals EXCEPT !.errorOccurred = {"Failed to open camera"}]
            /\ UNCHANGED runVars
       ELSE /\ m_running' = TRUE
            /\ captureOpened' = TRUE
            /\ timerActive' = TRUE
            /\ emitted' = NoSignals
    /\ trackerRun' = NoRun
    /\ UNCHANGED <<now, m_motionEnabled, m_motionSensitivity, motionVars, roiVars,
                   tripwireVars, aiVars, trackVars, history>>

start(opens) ==
    /\ CaptureWorker_start(opens)
    /\ MainThreadIdle

\* a slip: the capture handle is kept open
CaptureWorker_stopKeepingCapture ==
    /\ IF ~m_running
       THEN UNCHANGED runVars
       ELSE /\ m_running' = FALSE
            /\ timerActive' = FALSE
            /\ UNCHANGED captureOpened
    /\ emitted' = NoSignals
    /\ trackerRun' = NoRun
    /\ UNCHANGED <<now, m_motionEnabled, m_motionSensitivity, motionVars, roiVars,
                   tripwireVars, aiVars, trackVars, history>>
\* CaptureWorker::stop
CaptureWorker_stop ==
    /\ IF ~m_running
       THEN UNCHANGED runVars
       ELSE /\ m_running' = FALSE
            /\ timerActive' = FALSE
            /\ captureOpened' = FALSE
    /\ emitted' = NoSignals
    /\ trackerRun' = NoRun
    /\ UNCHANGED <<now, m_motionEnabled, m_motionSensitivity, motionVars, roiVars,
                   tripwireVars, aiVars, trackVars, history>>

stop ==
    /\ CaptureWorker_stop
    /\ MainThreadIdle

(***************************************************************************)
(* Capability slots                                                        *)
(***************************************************************************)
CaptureWorker_setMotionEnabled(enabled) ==
    /\ m_motionEnabled' = enabled
    /\ emitted' = NoSignals
    /\ trackerRun' = NoRun
    /\ UNCHANGED <<now, runVars, m_motionSensitivity, motionVars, roiVars,
                   tripwireVars, aiVars, trackVars, history>>

setMotionEnabled(enabled) ==
    /\ CaptureWorker_setMotionEnabled(enabled)
    /\ MainThreadIdle

CaptureWorker_setMotionSensitivity(sensitivity) ==
    /\ m_motionSensitivity' = sensitivity
    /\ emitted' = NoSignals
    /\ trackerRun' = NoRun
    /\ UNCHANGED <<now, runVars, m_motionEnabled, motionVars, roiVars,
                   tripwireVars, aiVars, trackVars, history>>

setMotionSensitivity(sensitivity) ==
    /\ CaptureWorker_setMotionSensitivity(sensitivity)
    /\ MainThreadIdle

CaptureWorker_setRoiPolygon(normalizedPoints) ==
    /\ m_roiNorm' = normalizedPoints
    /\ m_hasRoi' = (normalizedPoints # <<>>)
    /\ m_lastRoiAlertTime' = 0
    /\ history' = [history EXCEPT !.roiChanged = (history.roiAt # 0)]
    /\ emitted' = NoSignals
    /\ trackerRun' = NoRun
    /\ UNCHANGED <<now, runVars, m_motionEnabled, m_motionSensitivity, m_lastMotionTime,
                   m_lastTripwireAlertTime, m_prevSide, m_hasPrevSide,
                   tripwireVars, aiVars, trackVars>>

setRoiPolygon(normalizedPoints) ==
    /\ CaptureWorker_setRoiPolygon(normalizedPoints)
    /\ MainThreadIdle

CaptureWorker_clearRoi ==
    /\ m_roiNorm' = <<>>
    /\ m_hasRoi' = FALSE
    /\ m_lastRoiAlertTime' = 0
    /\ history' = [history EXCEPT !.roiChanged = (history.roiAt # 0)]
    /\ emitted' = NoSignals
    /\ trackerRun' = NoRun
    /\ UNCHANGED <<now, runVars, m_motionEnabled, m_motionSensitivity, m_lastMotionTime,
                   m_lastTripwireAlertTime, m_prevSide, m_hasPrevSide,
                   tripwireVars, aiVars, trackVars>>

clearRoi ==
    /\ CaptureWorker_clearRoi
    /\ MainThreadIdle

CaptureWorker_setTripwire(startNorm, endNorm) ==
    /\ m_tripwire' = <<startNorm, endNorm>>
    /\ m_hasTripwire' = TRUE
    /\ m_lastTripwireAlertTime' = 0
    /\ m_hasPrevSide' = FALSE
    /\ history' = [history EXCEPT !.tripwireChanged = (history.tripwireAt # 0),
                                  !.sideOn = NoLine]
    /\ emitted' = NoSignals
    /\ trackerRun' = NoRun
    /\ UNCHANGED <<now, runVars, m_motionEnabled, m_motionSensitivity, m_lastMotionTime,
                   m_lastRoiAlertTime, m_prevSide, roiVars, aiVars, trackVars>>

setTripwire(startNorm, endNorm) ==
    /\ CaptureWorker_setTripwire(startNorm, endNorm)
    /\ MainThreadIdle

CaptureWorker_clearTripwire ==
    /\ m_tripwire' = <<NoPoint, NoPoint>>
    /\ m_hasTripwire' = FALSE
    /\ m_lastTripwireAlertTime' = 0
    /\ m_hasPrevSide' = FALSE
    /\ history' = [history EXCEPT !.tripwireChanged = (history.tripwireAt # 0),
                                  !.sideOn = NoLine]
    /\ emitted' = NoSignals
    /\ trackerRun' = NoRun
    /\ UNCHANGED <<now, runVars, m_motionEnabled, m_motionSensitivity, m_lastMotionTime,
                   m_lastRoiAlertTime, m_prevSide, roiVars, aiVars, trackVars>>

clearTripwire ==
    /\ CaptureWorker_clearTripwire
    /\ MainThreadIdle

CaptureWorker_setAiEnabled(enabled) ==
    /\ m_aiEnabled' = enabled
    /\ m_aiFrameCounter' = 0
    /\ emitted' = NoSignals
    /\ trackerRun' = NoRun
    /\ UNCHANGED <<now, runVars, m_motionEnabled, m_motionSensitivity, motionVars, roiVars,
                   tripwireVars, m_detector, trackVars, history>>

\* a slip: switching detection also starts the tracker afresh
setAiEnabledResettingTracker(enabled) ==
    /\ m_aiEnabled' = enabled
    /\ m_aiFrameCounter' = 0
    /\ m_tracks' = EmptyTracks
    /\ m_nextTrackId' = 1
    /\ emitted' = NoSignals
    /\ trackerRun' = NoRun
    /\ UNCHANGED <<now, runVars, m_motionEnabled, m_motionSensitivity, motionVars, roiVars,
                   tripwireVars, m_detector, history>>
    /\ MainThreadIdle
setAiEnabled(enabled) ==
    /\ CaptureWorker_setAiEnabled(enabled)
    /\ MainThreadIdle

setObjectDetector(detector) ==
    /\ m_detector' = detector
    /\ emitted' = NoSignals
    /\ trackerRun' = NoRun
    /\ UNCHANGED <<now, runVars, m_motionEnabled, m_motionSensitivity, motionVars, roiVars,
                   tripwireVars, m_aiEnabled, m_aiFrameCounter, trackVars, history>>
    /\ MainThreadIdle

(***************************************************************************)
(* CaptureWorker::captureFrame (with processMotionDetection,               *)
(* processRoiMotion, processTripwire, processAIDetection, updateTracks)    *)
(***************************************************************************)
\* the AI gate of captureFrame
AiActive == m_aiEnabled /\ m_detector # "null" /\ DetectorLoaded(m_detector)
\* a slip: the counter is compared one frame early
InferDueOneEarly == AiActive /\ m_aiFrameCounter + 1 >= AI_PROCESS_INTERVAL - 1
\* infer is called on this frame
InferDue == AiActive /\ m_aiFrameCounter + 1 >= AI_PROCESS_INTERVAL

\* a slip: the motion path runs whatever the flag
MotionGateOpen(motionEnabled) == TRUE
\* "Process motion detection if enabled"
MotionGate(motionEnabled) == motionEnabled

CaptureWorker_captureFrame(empty, mask, detections, inferThrows) ==
    /\ timerActive
    /\ UNCHANGED <<now, runVars, m_motionEnabled, m_motionSensitivity, roiVars,
                   tripwireVars, m_detector, m_aiEnabled>>
    /\ IF ~m_running \/ ~captureOpened
       THEN /\ emitted' = NoSignals
            /\ trackerRun' = NoRun
            /\ UNCHANGED <<motionVars, m_aiFrameCounter, trackVars, history>>
       ELSE IF empty
       THEN /\ emitted' = [NoSignals EXCEPT !.errorOccurred = {"Failed to capture frame"}]
            /\ trackerRun' = NoRun
            /\ UNCHANGED <<motionVars, m_aiFrameCounter, trackVars, history>>
       ELSE
         LET t == now
             motionFired == /\ MotionGate(m_motionEnabled)
                            /\ MotionFires(mask, m_motionSensitivity, t, m_lastMotionTime)
             roiFired == /\ MotionGate(m_motionEnabled)
                         /\ m_hasRoi
                         /\ RoiFires(mask, m_roiNorm, m_motionSensitivity, t,
                                     m_lastRoiAlertTime)
             tw == IF MotionGate(m_motionEnabled) /\ m_hasTripwire
                   THEN processTripwire(mask, m_tripwire, m_prevSide, m_hasPrevSide, t,
                                        m_lastTripwireAlertTime)
                   ELSE [prevSide |-> m_prevSide, hasPrevSide |-> m_hasPrevSide,
                         fired |-> FALSE, direction |-> 0]
             tracked == InferDue /\ ~inferThrows
             born(u) == { u.assigns[k].track : k \in { n \in DOMAIN u.assigns : u.assigns[n].created } }
             entered(u, i) == ~u.preRoi[i].insideRoi /\ u.preCleanup[i].insideRoi
             inVisit(u, i) == IF i \notin u.updated THEN history.loiterInVisit[i]
                           ELSE IF ~u.preCleanup[i].insideRoi /\ i \notin u.loiter THEN 0
                           ELSE Min(2, (IF entered(u, i) THEN 0 ELSE history.loiterInVisit[i])
                                         + (IF i \in u.loiter THEN 1 ELSE 0))
             total(u, i) == Min(2, history.loiterTotal[i] + (IF i \in u.loiter THEN 1 ELSE 0))
         IN \E u \in { updateTracks(m_tracks, m_nextTrackId, detections, ClassNames, t,
                                      m_roiNorm, m_hasRoi, m_tripwire, m_hasTripwire) } :
           /\ m_lastMotionTime' = IF motionFired THEN t ELSE m_lastMotionTime
           /\ m_lastRoiAlertTime' = IF roiFired THEN t ELSE m_lastRoiAlertTime
           /\ m_lastTripwireAlertTime' = IF tw.fired THEN t ELSE m_lastTripwireAlertTime
           /\ m_prevSide' = tw.prevSide
           /\ m_hasPrevSide' = tw.hasPrevSide
           /\ m_aiFrameCounter' = IF ~AiActive THEN m_aiFrameCounter
                                  ELSE IF InferDue THEN 0 ELSE m_aiFrameCounter + 1
           /\ m_tracks' = IF tracked THEN u.tracks ELSE m_tracks
           /\ m_nextTrackId' = IF tracked THEN u.nextId ELSE m_nextTrackId
           /\ trackerRun' =
                IF tracked
                THEN [ran |-> TRUE, time |-> t, assigns |-> u.assigns,
                      preCleanup |-> [i \in DOMAIN u.preCleanup |-> u.preCleanup[i].lastSeenMs]]
                ELSE NoRun
           /\ emitted' =
                [motionDetected |->
                    IF motionFired
                    THEN {[score |-> mask.motionScore, gap |-> GapSince(history.motionAt, t)]}
                    ELSE {},
                 roiMotionDetected |->
                    IF roiFired
                    THEN {[score |-> mask.roiScore, gap |-> GapSince(history.roiAt, t),
                           sameRoi |-> ~history.roiChanged]}
                    ELSE {},
                 tripwireCrossed |->
                    IF tw.fired
                    THEN {[direction |-> tw.direction,
                           gap |-> GapSince(history.tripwireAt, t),
                           sameTripwire |-> ~history.tripwireChanged]}
                    ELSE {},
                 trackCrossedTripwire |->
                    IF tracked
                    THEN {[trackId |-> i, label |-> u.preCleanup[i].label,
                           direction |-> getCrossingDirection(
                               computeSideOfLine(u.preCleanup[i].prevCentroid, m_tripwire),
                               computeSideOfLine(u.preCleanup[i].centroid, m_tripwire)),
                           gap |-> GapSince(history.trackTripwireAt[i], t),
                           born |-> i \in born(u)] : i \in u.crossed}
                    ELSE {},
                 loiteringDetected |->
                    IF tracked
                    THEN {[trackId |-> i, label |-> u.preCleanup[i].label,
                           durationMs |-> t - u.preCleanup[i].enteredRoiMs,
                           inVisit |-> inVisit(u, i), total |-> total(u, i)] : i \in u.loiter}
                    ELSE {},
                 errorOccurred |-> {},
                 aiDetectionsReady |-> IF tracked THEN {Len(detections)} ELSE {},
                 frameCaptured |-> {1}]
           /\ history' =
                [motionAt |-> IF motionFired THEN t ELSE history.motionAt,
                 roiAt |-> IF roiFired THEN t ELSE history.roiAt,
                 tripwireAt |-> IF tw.fired THEN t ELSE history.tripwireAt,
                 roiChanged |-> IF roiFired THEN FALSE ELSE history.roiChanged,
                 tripwireChanged |-> IF tw.fired THEN FALSE ELSE history.tripwireChanged,
                 sideOn |-> IF ~(MotionGate(m_motionEnabled) /\ m_hasTripwire)
                            THEN history.sideOn
                            ELSE IF mask.m00 < MIN_MOTION_AREA THEN NoLine ELSE m_tripwire,
                 trackTripwireAt |->
                    [i \in TrackIds |-> IF tracked /\ i \in u.crossed
                                        THEN t ELSE history.trackTripwireAt[i]],
                 loiterInVisit |->
                    [i \in TrackIds |-> IF ~tracked THEN history.loiterInVisit[i]
                                        ELSE IF i \notin DOMAIN u.tracks THEN 0
                                        ELSE inVisit(u, i)],
                 loiterTotal |->
                    [i \in TrackIds |-> IF ~tracked THEN history.loiterTotal[i]
                                        ELSE IF i \notin DOMAIN u.tracks THEN 0
                                        ELSE total(u, i)]]

captureFrame(empty, mask, detections, inferThrows) ==
    /\ CaptureWorker_captureFrame(empty, mask, detections, inferThrows)
    /\ MainThreadIdle

\* the number of track ids allocated once updateTracks has run on a list
TracksAllocated(tracks, nextId, detections) ==
    AssignLoop(TrackedDetections(detections, ClassNames, FrameW, FrameH),
               [tracks |-> tracks, nextId |-> nextId, updated |-> {}, assigns |-> <<>>],
               0).nextId - 1

\* the frames the camera can deliver in the current state: only what the
\* handler reads of a frame is drawn
CaptureWorker_captureFrameFrom(scores, centroids, detectionLists, maxTrackId) ==
    \E empty \in BOOLEAN :
      \E mask \in IF ~empty /\ MotionGate(m_motionEnabled)
                  THEN MaskInputs(scores, centroids, m_hasRoi /\ Len(m_roiNorm) >= 3,
                                  m_hasTripwire)
                  ELSE {NoMask} :
        \E inferThrows \in IF ~empty /\ InferDue THEN BOOLEAN ELSE {FALSE} :
          \E detections \in IF ~empty /\ InferDue /\ ~inferThrows
                            THEN { d \in detectionLists :
                                     TracksAllocated(m_tracks, m_nextTrackId, d) <= maxTrackId }
                            ELSE { <<>> } :
            CaptureWorker_captureFrame(empty, mask, detections, inferThrows)

captureFrameFrom(scores, centroids, detectionLists, maxTrackId) ==
    /\ CaptureWorker_captureFrameFrom(scores, centroids, detectionLists, maxTrackId)
    /\ MainThreadIdle

(***************************************************************************)
(* Specification: the worker with every slot                               *)
(***************************************************************************)
DetectionLists == SeqsUpTo(Detections, MaxDets)
\* persons left of the ROI and of the vertical tripwire, and inside / right
PersonLists == SeqsUpTo({ d \in Detections : d.classId = 0 /\ d.box.x <= 320 }, MaxDets)

Next ==
    \/ Tick(TickMs, MaxJointTicks)
    \/ \E opens \in BOOLEAN : start(opens)
    \/ stop
    \/ captureFrameFrom(Scores, MaskCentroids, DetectionLists, MaxCrossingTrackId)
    \/ \E enabled \in BOOLEAN : setMotionEnabled(enabled)
    \/ \E sensitivity \in Sensitivities : setMotionSensitivity(sensitivity)
    \/ \E points \in RoiPolygons : setRoiPolygon(points)
    \/ clearRoi
    \/ \E w \in Tripwires : setTripwire(w[1], w[2])
    \/ clearTripwire
    \/ \E enabled \in BOOLEAN : setAiEnabled(enabled)
    \/ \E detector \in Detectors : setObjectDetector(detector)

Spec == Init /\ [][Next]_vars

(***************************************************************************)
(* The subsystems of the worker share only the frame loop and the          *)
(* configuration, so each is explored under the slots that reach it.       *)
(***************************************************************************)
\* whole-frame and ROI motion
NextRoi ==
    \/ Tick(TickMs, MaxTicks)
    \/ \E opens \in BOOLEAN : start(opens)
    \/ captureFrameFrom(Scores, MaskCentroids, { <<>> }, MaxTrackId)
    \/ \E enabled \in BOOLEAN : setMotionEnabled(enabled)
    \/ \E sensitivity \in Sensitivities : setMotionSensitivity(sensitivity)
    \/ \E points \in RoiPolygons : setRoiPolygon(points)
    \/ clearRoi

SpecRoi == Init /\ [][NextRoi]_vars

\* whole-frame motion and the mask-centroid tripwire
NextTripwire ==
    \/ Tick(TickMs, MaxTicks)
    \/ \E opens \in BOOLEAN : start(opens)
    \/ captureFrameFrom(Scores, MaskCentroids, { <<>> }, MaxTrackId)
    \/ \E enabled \in BOOLEAN : setMotionEnabled(enabled)
    \/ \E w \in Tripwires : setTripwire(w[1], w[2])
    \/ clearTripwire

SpecTripwire == Init /\ [][NextTripwire]_vars

\* the tracker: assignment and eviction
NextTracker ==
    \/ Tick(TickMs, MaxTrackerTicks)
    \/ \E opens \in BOOLEAN : start(opens)
    \/ captureFrameFrom(Scores, MaskCentroids, DetectionLists, MaxTrackId)
    \/ \E enabled \in BOOLEAN : setAiEnabled(enabled)
    \/ \E detector \in Detectors : setObjectDetector(detector)

SpecTracker == Init /\ [][NextTracker]_vars

\* the tracker over the life of a pipeline: stopped and started again,
\* detection switched off and on
NextTrackIds ==
    \/ Tick(TickMs, MaxTrackerTicks)
    \/ \E opens \in BOOLEAN : start(opens)
    \/ stop
    \/ captureFrameFrom({0}, {NoPoint}, DetectionLists, MaxTrackId)
    \/ \E enabled \in BOOLEAN : setAiEnabled(enabled)
    \/ setObjectDetector("yolo")

SpecTrackIds == Init /\ [][NextTrackIds]_vars

\* the tracker with a tripwire: per-track line crossing of persons walking
\* across the vertical line and along the horizontal one
NextCrossing ==
    \/ Tick(TickMs, MaxTrackerTicks)
    \/ \E opens \in BOOLEAN : start(opens)
    \/ captureFrameFrom(Scores, MaskCentroids, PersonLists, MaxCrossingTrackId)
    \/ \E enabled \in BOOLEAN : setAiEnabled(enabled)
    \/ \E detector \in Detectors : setObjectDetector(detector)
    \/ \E w \in Tripwires : setTripwire(w[1], w[2])
    \/ clearTripwire

SpecCrossing == Init /\ [][NextCrossing]_vars

\* the motion switch against every kind of alert it could gate: frames
\* with motion everywhere, persons on either side of the vertical tripwire
MovingScores == { s \in Scores : AboveThreshold(s, 50) }
SideCentroids == { c \in MaskCentroids : c[2] = 240 }

NextGate ==
    \/ \E opens \in BOOLEAN : start(opens)
    \/ captureFrameFrom(MovingScores, SideCentroids, PersonLists, MaxCrossingTrackId)
    \/ \E enabled \in BOOLEAN : setMotionEnabled(enabled)
    \/ setRoiPolygon(RoiSquare)
    \/ setTripwire(TripwireV[1], TripwireV[2])
    \/ setAiEnabled(TRUE)
    \/ setObjectDetector("yolo")

SpecGate == Init /\ [][NextGate]_vars


\* the tracker with an ROI over a long stay: occupancy and loitering
NextLoiter ==
    \/ Tick(LoiterTickMs, MaxLoiterTicks)
    \/ \E opens \in BOOLEAN : start(opens)
    \/ captureFrameFrom(Scores, MaskCentroids, PersonLists, MaxLoiterTrackId)
    \/ setAiEnabled(TRUE)
    \/ setObjectDetector("yolo")
    \/ setRoiPolygon(RoiSquare)
    \/ clearRoi

SpecLoiter == Init /\ [][NextLoiter]_vars


(***************************************************************************)
(* CameraStream: the object of the main thread that owns a worker.  The    *)
(* stream posts slot invocations to its worker (QMetaObject::invokeMethod  *)
(* with Qt::QueuedConnection) and receives the worker's signals through    *)
(* queued connections; both queues are first-in first-out.  A message      *)
(* keeps the signal, the camera, the number of the frame it was emitted    *)
(* for and, for errorOccurred, the text and the number of empty reads in   *)
(* a row; the other arguments only reach the text of an alert.             *)
(***************************************************************************)
\* a step in which the worker thread does nothing
WorkerIdle ==
    /\ emitted' = NoSignals
    /\ trackerRun' = NoRun
    /\ UNCHANGED <<now, runVars, m_motionEnabled, m_motionSensitivity, motionVars, roiVars,
                   tripwireVars, aiVars, trackVars, history>>

Msg(cam, signal, frame, arg) == [cam |-> cam, signal |-> signal, frame |-> frame, arg |-> arg]

\* one message per emission of a signal
Emissions(S, cam, signal, frame) == [n \in 1..Cardinality(S) |-> Msg(cam, signal, frame, <<>>)]

\* the signals of one handler run, in the order captureFrame emits them:
\* processMotionDetection, processAIDetection (updateTracks, then
\* aiDetectionsReady), frameCaptured; an error is the only signal of its run
QueuedSignals(em, cam, frame, emptyReads) ==
    IF em.errorOccurred # {}
    THEN <<Msg(cam, "errorOccurred", frame, <<Only(em.errorOccurred), emptyReads>>)>>
    ELSE Emissions(em.motionDetected, cam, "motionDetected", frame)
         \o Emissions(em.roiMotionDetected, cam, "roiMotionDetected", frame)
         \o Emissions(em.tripwireCrossed, cam, "tripwireCrossed", frame)
         \o Emissions(em.loiteringDetected, cam, "loiteringDetected", frame)
         \o Emissions(em.trackCrossedTripwire, cam, "trackCrossedTripwire", frame)
         \o [n \in 1..Cardinality(em.aiDetectionsReady) |->
                Msg(cam, "aiDetectionsReady", frame, <<Only(em.aiDetectionsReady)>>)]
         \o Emissions(em.frameCaptured, cam, "frameCaptured", frame)

\* the record of a call: the stream (or worker state) before it, the
\* notifications it emitted and the messages it posted
Call(op, cam, wasRunning, before, arg, notified, posted) ==
    [op |-> op, cam |-> cam, wasRunning |-> wasRunning, before |-> before, arg |-> arg,
     notified |-> notified, posted |-> posted, returned |-> TRUE]

\* CameraStream::start on a stream s: the stream after it, the change
\* notifications, the slot posted to the worker (its name, then its arguments)
StartOutcome(s) ==
    IF s.running
    THEN [stream |-> s, notified |-> <<>>, posted |-> <<>>]
    ELSE [stream |-> [s EXCEPT !.running = TRUE, !.status = Starting],
          notified |-> <<"runningChanged", "statusChanged">>,
          posted |-> << <<"start">> >>]

\* a slip: no early return
StopOutcomeUnguarded(s) ==
    [stream |-> [s EXCEPT !.running = FALSE, !.status = Stopped],
     notified |-> <<"runningChanged", "statusChanged", "fpsChanged">>,
     posted |-> << <<"stop">> >>]
\* CameraStream::stop on a stream s
StopOutcome(s) ==
    IF ~s.running
    THEN [stream |-> s, notified |-> <<>>, posted |-> <<>>]
    ELSE [stream |-> [s EXCEPT !.running = FALSE, !.status = Stopped],
          notified |-> <<"runningChanged", "statusChanged", "fpsChanged">>,
          posted |-> << <<"stop">> >>]

\* CameraStream::onFrameCaptured
FrameCapturedOutcome(s, frame) ==
    [stream |-> [s EXCEPT !.hasFrame = TRUE, !.frame = frame, !.status = Running],
     notified |-> <<"frameChanged", "statusChanged">>,
     posted |-> <<>>]

\* a slip: the error is shown and the stream is left running
ErrorOccurredOutcomeShownOnly(s, error) ==
    [stream |-> [s EXCEPT !.status = ErrorStatus(error)],
     notified |-> <<"statusChanged">>, posted |-> <<>>]
\* CameraStream::onErrorOccurred: "Auto-stop on error"
ErrorOccurredOutcome(s, error) ==
    LET failed == [s EXCEPT !.status = ErrorStatus(error)]
        stopped == StopOutcome(failed)
    IN IF failed.running
       THEN [stream |-> stopped.stream,
             notified |-> <<"statusChanged">> \o stopped.notified,
             posted |-> stopped.posted]
       ELSE [stream |-> failed, notified |-> <<"statusChanged">>, posted |-> <<>>]

\* a slot posted by the stream of camera cam reaches the queue of its
\* worker; the workers of the other cameras are not part of the model
PostedTo(cam, posted) == IF cam = WorkerCamera THEN toWorker \o posted ELSE toWorker

\* a session of the stream of camera cam begins with the call that posts
\* the worker's start: the frames captured so far are of earlier sessions
SessionSeen(cam, posted) ==
    IF \E k \in 1..Len(posted) : posted[k][1] = "start"
    THEN [observed EXCEPT !.sessionFrom[cam] = observed.frameNo[cam]]
    ELSE observed

\* a call of the main thread on the stream of camera cam
StreamCall(cam, op, arg, outcome) ==
    /\ Len(PostedTo(cam, outcome.posted)) <= MaxPosted
    /\ streams' = [streams EXCEPT ![cam] = outcome.stream]
    /\ toWorker' = PostedTo(cam, outcome.posted)
    /\ lastCall' = Call(op, cam, streams[cam].running, streams[cam], arg,
                        outcome.notified, outcome.posted)
    /\ observed' = SessionSeen(cam, outcome.posted)
    /\ UNCHANGED <<cameraManager, executing, m_alerts>>
    /\ WorkerIdle

CameraStream_start(cam) ==
    /\ StreamCall(cam, "CameraStream::start", <<>>, StartOutcome(streams[cam]))
    /\ UNCHANGED toMain

CameraStream_stop(cam) ==
    /\ StreamCall(cam, "CameraStream::stop", <<>>, StopOutcome(streams[cam]))
    /\ UNCHANGED toMain

\* a slip: the signal queued last is delivered first
DeliveryOfLast(queue) ==
    [msg |-> queue[Len(queue)], rest |-> SubSeq(queue, 1, Len(queue) - 1)]
\* a queued connection delivers the signals first in, first out
Delivery(queue) == [msg |-> Head(queue), rest |-> Tail(queue)]

\* the main thread's event loop delivers the next queued signal to the
\* stream of the camera it comes from
Received(cam, signal) ==
    /\ toMain # <<>>
    /\ Delivery(toMain).msg.signal = signal
    /\ Delivery(toMain).msg.cam = cam

CameraStream_onFrameCaptured(cam) ==
    /\ Received(cam, "frameCaptured")
    /\ toMain' = Delivery(toMain).rest
    /\ StreamCall(cam, "CameraStream::onFrameCaptured", Delivery(toMain).msg.arg,
                  FrameCapturedOutcome(streams[cam], Delivery(toMain).msg.frame))

CameraStream_onErrorOccurred(cam) ==
    /\ Received(cam, "errorOccurred")
    /\ toMain' = Delivery(toMain).rest
    /\ StreamCall(cam, "CameraStream::onErrorOccurred", Delivery(toMain).msg.arg,
                  ErrorOccurredOutcome(streams[cam], Delivery(toMain).msg.arg[1]))

\* what a run of a worker handler shows: the empty reads in a row and the
\* number of the last frame captured
ObservedAfter(em) ==
    [observed EXCEPT
       !.emptyReads = IF em.errorOccurred = {"Failed to capture frame"}
                      THEN Min(MaxEmptyReads, @ + 1)
                      ELSE IF em.frameCaptured # {} THEN 0 ELSE @,
       !.frameNo[WorkerCamera] = IF em.frameCaptured # {} THEN Min(MaxFrames, @ + 1) ELSE @]

\* the worker thread has run a handler: its signals are queued to the stream
WorkerRan(op, before) ==
    /\ observed' = ObservedAfter(emitted')
    /\ toMain' = toMain \o QueuedSignals(emitted', WorkerCamera,
                                         observed'.frameNo[WorkerCamera],
                                         observed'.emptyReads)
    /\ Len(toMain') <= MaxQueued
    /\ lastCall' = Call(op, WorkerCamera, m_running, before, <<>>, <<>>, <<>>)
    /\ UNCHANGED <<cameraManager, executing, streams, m_alerts>>

\* the worker thread's event loop runs the next posted slot
Worker_start ==
    /\ toWorker # <<>>
    /\ Head(toWorker)[1] = "start"
    /\ toWorker' = Tail(toWorker)
    /\ \E opens \in BOOLEAN : CaptureWorker_start(opens)
    /\ WorkerRan("CaptureWorker::start", <<m_running, captureOpened, timerActive>>)

Worker_stop ==
    /\ toWorker # <<>>
    /\ Head(toWorker)[1] = "stop"
    /\ toWorker' = Tail(toWorker)
    /\ CaptureWorker_stop
    /\ WorkerRan("CaptureWorker::stop", <<m_running, captureOpened, timerActive>>)

\* the worker's timer fires
Worker_captureFrame(scores, centroids, detectionLists, maxTrackId) ==
    /\ CaptureWorker_captureFrameFrom(scores, centroids, detectionLists, maxTrackId)
    /\ WorkerRan("CaptureWorker::captureFrame", <<m_running, captureOpened, timerActive>>)
    /\ UNCHANGED toWorker

\* a slip: the stream is started again but its worker is not
SourceChangedOutcomeStreamOnly(s, source) ==
    LET stopped == StopOutcome(s)
        changed == [stopped.stream EXCEPT !.source = source, !.workerSource = source]
        started == StartOutcome(changed)
    IN  IF s.running
        THEN [stream |-> started.stream,
              notified |-> stopped.notified \o started.notified,
              posted |-> stopped.posted]
        ELSE [stream |-> changed, notified |-> <<>>, posted |-> <<>>]
\* CameraStream::setSource / setSourceUrl with the source selection they
\* write: stop() if the stream runs, the fields of the stream and of its
\* worker, start() if the stream ran
SourceChangedOutcome(s, source) ==
    LET stopped == StopOutcome(s)
        changed == [stopped.stream EXCEPT !.source = source, !.workerSource = source]
        started == StartOutcome(changed)
    IN  IF s.running
        THEN [stream |-> started.stream,
              notified |-> stopped.notified \o started.notified,
              posted |-> stopped.posted \o started.posted]
        ELSE [stream |-> changed, notified |-> <<>>, posted |-> <<>>]

CameraStream_setSource(cam, cameraIndex) ==
    /\ StreamCall(cam, "CameraStream::setSource", <<cameraIndex>>,
                  SourceChangedOutcome(streams[cam],
                      [m_cameraIndex |-> cameraIndex, m_isUrlSource |-> FALSE,
                       m_sourceUrl |-> ""]))
    /\ UNCHANGED toMain

CameraStream_setSourceUrl(cam, url) ==
    /\ StreamCall(cam, "CameraStream::setSourceUrl", <<url>>,
                  SourceChangedOutcome(streams[cam],
                      [m_cameraIndex |-> -1, m_isUrlSource |-> TRUE, m_sourceUrl |-> url]))
    /\ UNCHANGED toMain

\* the life cycle of one pipeline: start and stop requests, the worker's
\* frame loop with motion detection and detection switched off
NextLifecycle ==
    \/ CameraStream_start(WorkerCamera)
    \/ CameraStream_stop(WorkerCamera)
    \/ Worker_start
    \/ Worker_stop
    \/ Worker_captureFrame({0}, {NoPoint}, { <<>> }, MaxTrackId)
    \/ CameraStream_onFrameCaptured(WorkerCamera)
    \/ CameraStream_onErrorOccurred(WorkerCamera)

SpecLifecycle == Init /\ [][NextLifecycle]_vars

\* the life cycle with the source changed at any time
NextSources ==
    \/ CameraStream_start(WorkerCamera)
    \/ CameraStream_stop(WorkerCamera)
    \/ \E cameraIndex \in {0, 1} : CameraStream_setSource(WorkerCamera, cameraIndex)
    \/ CameraStream_setSourceUrl(WorkerCamera, "rtsp://host/stream")
    \/ Worker_start
    \/ Worker_stop
    \/ Worker_captureFrame({0}, {NoPoint}, { <<>> }, MaxTrackId)
    \/ CameraStream_onFrameCaptured(WorkerCamera)
    \/ CameraStream_onErrorOccurred(WorkerCamera)

SpecSources == Init /\ [][NextSources]_vars

\* the same with every queued message delivered in the end: the event loop
\* of each thread keeps taking the oldest entry of its queue
SpecDelivered ==
    /\ SpecLifecycle
    /\ WF_vars(Worker_start)
    /\ WF_vars(Worker_stop)
    /\ WF_vars(CameraStream_onFrameCaptured(WorkerCamera))
    /\ WF_vars(CameraStream_onErrorOccurred(WorkerCamera))

(***************************************************************************)
(* The capability setters of a stream.  Each keeps the value on the stream *)
(* and posts the slot of the same name to the worker; the worker's event   *)
(* loop runs one posted slot or one captureFrame at a time.                *)
(***************************************************************************)
qBound(min, value, max) == IF value < min THEN min ELSE IF value > max THEN max ELSE value

\* qFuzzyCompare of qglobal.h, |p1 - p2| * 10^12 <= min(|p1|, |p2|), on whole
\* numbers, where it is |p1 - p2| <= min(|p1|, |p2|) / 10^12 rounded down
qFuzzyCompare(p1, p2) == Abs(p1 - p2) <= (Min(Abs(p1), Abs(p2)) \div 1000000) \div 1000000

\* the setter returns early
Unchanged(s) == [stream |-> s, notified |-> <<>>, posted |-> <<>>]

CameraStream_setMotionEnabled(cam, enabled) ==
    /\ Len(toWorker) < MaxPending
    /\ StreamCall(cam, "CameraStream::setMotionEnabled", enabled,
                  IF streams[cam].motionEnabled = enabled
                  THEN Unchanged(streams[cam])
                  ELSE [stream |-> [streams[cam] EXCEPT !.motionEnabled = enabled],
                        notified |-> <<"motionEnabledChanged">>,
                        posted |-> << <<"setMotionEnabled", enabled>> >>])
    /\ UNCHANGED toMain

\* a slip: the worker is handed the value asked for, not the clamped one
CameraStream_setMotionSensitivityUnclamped(cam, sensitivity) ==
    /\ Len(toWorker) < MaxPending
    /\ StreamCall(cam, "CameraStream::setMotionSensitivity", sensitivity,
                  LET clamped == qBound(0, sensitivity, 100)
                  IN  IF qFuzzyCompare(streams[cam].motionSensitivity, clamped)
                      THEN Unchanged(streams[cam])
                      ELSE [stream |-> [streams[cam] EXCEPT !.motionSensitivity = clamped],
                            notified |-> <<"motionSensitivityChanged">>,
                            posted |-> << <<"setMotionSensitivity", sensitivity>> >>])
    /\ UNCHANGED toMain
CameraStream_setMotionSensitivity(cam, sensitivity) ==
    /\ Len(toWorker) < MaxPending
    /\ StreamCall(cam, "CameraStream::setMotionSensitivity", sensitivity,
                  LET clamped == qBound(0, sensitivity, 100)
                  IN  IF qFuzzyCompare(streams[cam].motionSensitivity, clamped)
                      THEN Unchanged(streams[cam])
                      ELSE [stream |-> [streams[cam] EXCEPT !.motionSensitivity = clamped],
                            notified |-> <<"motionSensitivityChanged">>,
                            posted |-> << <<"setMotionSensitivity", clamped>> >>])
    /\ UNCHANGED toMain

CameraStream_setRoiPolygon(cam, normalizedPoints) ==
    /\ Len(toWorker) < MaxPending
    /\ StreamCall(cam, "CameraStream::setRoiPolygon", normalizedPoints,
                  [stream |-> [streams[cam] EXCEPT !.roiNorm = normalizedPoints,
                                                   !.hasRoi = (normalizedPoints # <<>>)],
                   notified |-> <<>>,
                   posted |-> << <<"setRoiPolygon", normalizedPoints>> >>])
    /\ UNCHANGED toMain

CameraStream_clearRoi(cam) ==
    /\ Len(toWorker) < MaxPending
    /\ StreamCall(cam, "CameraStream::clearRoi", <<>>,
                  [stream |-> [streams[cam] EXCEPT !.roiNorm = <<>>, !.hasRoi = FALSE],
                   notified |-> <<>>,
                   posted |-> << <<"clearRoi">> >>])
    /\ UNCHANGED toMain

CameraStream_setTripwire(cam, startNorm, endNorm) ==
    /\ Len(toWorker) < MaxPending
    /\ StreamCall(cam, "CameraStream::setTripwire", <<startNorm, endNorm>>,
                  [stream |-> [streams[cam] EXCEPT !.tripwire = <<startNorm, endNorm>>,
                                                   !.hasTripwire = TRUE],
                   notified |-> <<>>,
                   posted |-> << <<"setTripwire", startNorm, endNorm>> >>])
    /\ UNCHANGED toMain

CameraStream_clearTripwire(cam) ==
    /\ Len(toWorker) < MaxPending
    /\ StreamCall(cam, "CameraStream::clearTripwire", <<>>,
                  [stream |-> [streams[cam] EXCEPT !.tripwire = <<NoPoint, NoPoint>>,
                                                   !.hasTripwire = FALSE],
                   notified |-> <<>>,
                   posted |-> << <<"clearTripwire">> >>])
    /\ UNCHANGED toMain

\* CameraStream::setAiEnabled
CameraStream_setAiEnabled(cam, enabled) ==
    /\ Len(toWorker) < MaxPending
    /\ StreamCall(cam, "CameraStream::setAiEnabled", enabled,
                  IF streams[cam].aiEnabled = enabled
                  THEN Unchanged(streams[cam])
                  ELSE [stream |-> [streams[cam] EXCEPT
                                     !.aiEnabled = enabled,
                                     !.detections = IF enabled THEN @ ELSE 0],
                        notified |-> (IF enabled THEN <<>> ELSE <<"detectionsChanged">>)
                                     \o <<"aiEnabledChanged">>,
                        posted |-> << <<"setAiEnabled", enabled>> >>])
    /\ UNCHANGED toMain

\* CameraStream::onAIDetectionsReady
AIDetectionsReadyOutcome(s, detections) ==
    [stream |-> [s EXCEPT !.detections = detections],
     notified |-> <<"detectionsChanged">>, posted |-> <<>>]

CameraStream_onAIDetectionsReady(cam) ==
    /\ Received(cam, "aiDetectionsReady")
    /\ toMain' = Delivery(toMain).rest
    /\ StreamCall(cam, "CameraStream::onAIDetectionsReady", Delivery(toMain).msg.arg,
                  AIDetectionsReadyOutcome(streams[cam], Delivery(toMain).msg.arg[1]))

\* the capability values the worker holds
WorkerValues ==
    [motionEnabled |-> m_motionEnabled, motionSensitivity |-> m_motionSensitivity,
     aiEnabled |-> m_aiEnabled, roiNorm |-> m_roiNorm, hasRoi |-> m_hasRoi,
     tripwire |-> m_tripwire, hasTripwire |-> m_hasTripwire]

\* the worker thread's event loop runs the next posted slot, a capability
\* slot with the arguments it was posted with
Worker_slot ==
    /\ toWorker # <<>>
    /\ toWorker' = Tail(toWorker)
    /\ LET call == Head(toWorker)
       IN  \/ call[1] = "setMotionEnabled" /\ CaptureWorker_setMotionEnabled(call[2])
           \/ call[1] = "setMotionSensitivity" /\ CaptureWorker_setMotionSensitivity(call[2])
           \/ call[1] = "setRoiPolygon" /\ CaptureWorker_setRoiPolygon(call[2])
           \/ call[1] = "clearRoi" /\ CaptureWorker_clearRoi
           \/ call[1] = "setTripwire" /\ CaptureWorker_setTripwire(call[2], call[3])
           \/ call[1] = "clearTripwire" /\ CaptureWorker_clearTripwire
           \/ call[1] = "setAiEnabled" /\ CaptureWorker_setAiEnabled(call[2])
    /\ WorkerRan(Head(toWorker)[1], WorkerValues)

\* the sensitivities asked for: the one a stream starts with and one past
\* the range
SensitivityRequests == {50, 150}
Wire == << <<10, 20>>, <<30, 20>> >>

NextSetters ==
    \/ CameraStream_start(WorkerCamera)
    \/ Worker_start
    \/ Worker_captureFrame({0}, {NoPoint}, { <<>> }, MaxTrackId)
    \/ \E enabled \in BOOLEAN : CameraStream_setMotionEnabled(WorkerCamera, enabled)
    \/ \E sensitivity \in SensitivityRequests : CameraStream_setMotionSensitivity(WorkerCamera, sensitivity)
    \/ CameraStream_setRoiPolygon(WorkerCamera, RoiSquare)
    \/ CameraStream_clearRoi(WorkerCamera)
    \/ CameraStream_setTripwire(WorkerCamera, Wire[1], Wire[2])
    \/ CameraStream_clearTripwire(WorkerCamera)
    \/ \E enabled \in BOOLEAN : CameraStream_setAiEnabled(WorkerCamera, enabled)
    \/ Worker_slot

SpecSetters == Init /\ [][NextSetters]_vars

\* detection switched on and off on a pipeline whose camera shows one person
\* or nobody
PersonOrNobody == SeqsUpTo({ d \in Detections : d.classId = 0 /\ d.box.x = 288 }, 1)

NextDetections ==
    \/ CameraStream_start(WorkerCamera)
    \/ Worker_start
    \/ Worker_captureFrame({0}, {NoPoint}, PersonOrNobody, MaxTrackId)
    \/ CameraStream_onFrameCaptured(WorkerCamera)
    \/ CameraStream_onAIDetectionsReady(WorkerCamera)
    \/ CameraStream_onErrorOccurred(WorkerCamera)
    \/ Worker_stop
    \/ \E enabled \in BOOLEAN : CameraStream_setAiEnabled(WorkerCamera, enabled)
    \/ Worker_slot
    \/ setObjectDetector("yolo")

SpecDetections == Init /\ [][NextDetections]_vars

(***************************************************************************)
(* AlertLogModel and the connections of main.cpp.  An alert keeps the      *)
(* fields the operations read; frame notes the frame the alert derives     *)
(* from.  A stream re-emits the worker's signal inside its handler and the *)
(* lambda of main.cpp is connected directly, so one step covers the        *)
(* handler, the lambda and the appends.                                    *)
(***************************************************************************)
\* AlertLogModel::generateId: the current time written to the millisecond,
\* which is the unit of now
generateId == now

Alert(cameraName, type, message, hasImage, frame) ==
    [id |-> generateId, cameraName |-> cameraName, type |-> type, message |-> message,
     snapshotPath |-> "", hasImage |-> hasImage, frame |-> frame]

\* a slip: the new alert is put in front
addAlertInFront(alerts, alert) == <<alert>> \o alerts
\* AlertLogModel::addAlert: m_alerts.append(alert)
addAlert(alerts, alert) == Append(alerts, alert)

\* the notifications of one addAlert
AddAlertNotified == <<"countChanged", "alertAdded">>

RECURSIVE AddAlerts(_, _)
AddAlerts(alerts, added) ==
    IF added = <<>> THEN alerts
    ELSE AddAlerts(addAlert(alerts, Head(added)), Tail(added))

RECURSIVE Repeated(_, _)
Repeated(seq, n) == IF n = 0 THEN <<>> ELSE seq \o Repeated(seq, n - 1)

\* the alert-active flag, reset timer and alert type of each signal
FlagOf(signal) ==
    CASE signal = "motionDetected" -> "motion"
      [] signal = "roiMotionDetected" -> "roi"
      [] signal \in {"tripwireCrossed", "trackCrossedTripwire"} -> "tripwire"
      [] OTHER -> "none"

AlertType(signal) ==
    CASE signal = "motionDetected" -> "motion"
      [] signal = "roiMotionDetected" -> "motion_roi"
      [] signal \in {"tripwireCrossed", "trackCrossedTripwire"} -> "tripwire"
      [] signal = "loiteringDetected" -> "loitering"

AlertMessage(signal) ==
    CASE signal = "motionDetected" -> "Motion detected (score: %1)"
      [] signal = "roiMotionDetected" -> "Motion in ROI (score: %1)"
      [] signal = "tripwireCrossed" -> "Tripwire crossed (%1)"
      [] signal = "trackCrossedTripwire" -> "Track %1 (%2) crossed tripwire (%3)"
      [] signal = "loiteringDetected" -> "Track %1 (%2) loitering: stayed in ROI for %3 seconds"

\* a slip: every lambda reads the flag of motion
AutoSnapshotOnMotionOnly(s, signal) == s.autoSnapshotOnMotion
\* the auto-snapshot flag the lambda of a signal reads
AutoSnapshot(s, signal) ==
    CASE signal = "motionDetected" -> s.autoSnapshotOnMotion
      [] signal \in {"roiMotionDetected", "loiteringDetected"} -> s.autoSnapshotOnRoi
      [] signal \in {"tripwireCrossed", "trackCrossedTripwire"} -> s.autoSnapshotOnTripwire

\* main.cpp: the alerts the lambda of a signal appends for stream s
AlertsFor(s, cam, signal, frame) ==
    <<Alert(cam, AlertType(signal), AlertMessage(signal), FALSE, frame)>>
    \o IF AutoSnapshot(s, signal) /\ s.hasFrame
       THEN <<Alert(cam, "snapshot", "Snapshot captured (unsaved)", TRUE, frame)>>
       ELSE <<>>

\* a slip: a running timer is left to run out
TimerKeptRunning(resetAt, t, interval) == IF resetAt # 0 THEN resetAt ELSE t + interval
\* QTimer::start on a single-shot timer: it fires one interval from now,
\* whether it was running or not
TimerRestarted(resetAt, t, interval) == t + interval

\* CameraStream::onMotionDetected / onRoiMotionDetected / onTripwireCrossed /
\* onTrackCrossedTripwire / onLoiteringDetected at time t, up to the signal
\* the stream re-emits
AlertSignalOutcome(s, signal, t) ==
    CASE FlagOf(signal) = "motion" ->
           [stream |-> [s EXCEPT !.motionActive = TRUE,
                                 !.motionResetAt = TimerRestarted(@, t, MOTION_RESET_INTERVAL_MS)],
            notified |-> <<"motionActiveChanged", signal>>]
      [] FlagOf(signal) = "roi" ->
           [stream |-> [s EXCEPT !.roiAlertActive = TRUE,
                                 !.roiAlertResetAt = TimerRestarted(@, t, ROI_ALERT_RESET_INTERVAL_MS)],
            notified |-> <<"roiAlertActiveChanged", signal>>]
      [] FlagOf(signal) = "tripwire" ->
           [stream |-> [s EXCEPT !.tripwireAlertActive = TRUE,
                                 !.tripwireAlertResetAt = TimerRestarted(@, t, TRIPWIRE_ALERT_RESET_INTERVAL_MS)],
            notified |-> <<"tripwireAlertActiveChanged", signal>>]
      [] OTHER -> [stream |-> s, notified |-> <<signal>>]

\* the time the last event of each flag was received at, by camera
EventSeen(cam, signal, t) ==
    IF FlagOf(signal) = "none" THEN observed
    ELSE [observed EXCEPT !.eventAt[cam][FlagOf(signal)] = t]

\* the handler of an alert signal of camera cam, delivered at the head of the
\* queue, and the lambda connected to the signal it re-emits
AlertSignalReceived(cam, signal, maxAlerts) ==
    /\ LET msg == Delivery(toMain).msg
           outcome == AlertSignalOutcome(streams[cam], signal, now)
           added == AlertsFor(outcome.stream, cam, signal, msg.frame)
       IN /\ Len(m_alerts) + Len(added) <= maxAlerts
          /\ toMain' = Delivery(toMain).rest
          /\ streams' = [streams EXCEPT ![cam] = outcome.stream]
          /\ m_alerts' = AddAlerts(m_alerts, added)
          /\ lastCall' = Call(signal, cam, streams[cam].running, streams[cam], <<>>,
                              outcome.notified \o Repeated(AddAlertNotified, Len(added)),
                              <<>>)
          /\ observed' = EventSeen(cam, signal, now)
    /\ UNCHANGED <<cameraManager, executing, toWorker>>
    /\ WorkerIdle

CameraStream_onMotionDetected(cam, maxAlerts) ==
    /\ Received(cam, "motionDetected")
    /\ AlertSignalReceived(cam, "motionDetected", maxAlerts)

CameraStream_onRoiMotionDetected(cam, maxAlerts) ==
    /\ Received(cam, "roiMotionDetected")
    /\ AlertSignalReceived(cam, "roiMotionDetected", maxAlerts)

CameraStream_onTripwireCrossed(cam, maxAlerts) ==
    /\ Received(cam, "tripwireCrossed")
    /\ AlertSignalReceived(cam, "tripwireCrossed", maxAlerts)

CameraStream_onTrackCrossedTripwire(cam, maxAlerts) ==
    /\ Received(cam, "trackCrossedTripwire")
    /\ AlertSignalReceived(cam, "trackCrossedTripwire", maxAlerts)

CameraStream_onLoiteringDetected(cam, maxAlerts) ==
    /\ Received(cam, "loiteringDetected")
    /\ AlertSignalReceived(cam, "loiteringDetected", maxAlerts)

\* a slip: the stream is not asked whether it runs
TakeSnapshotOutcomeOfAnyFrame(s) ==
    IF ~s.hasFrame
    THEN [returned |-> FALSE, notified |-> <<>>, image |-> <<>>]
    ELSE [returned |-> TRUE, notified |-> <<"snapshotCaptured">>, image |-> <<s.frame>>]
\* CameraStream::takeSnapshot on a stream s: the value returned and the image
\* emitted with snapshotCaptured
TakeSnapshotOutcome(s) ==
    IF ~s.running \/ ~s.hasFrame
    THEN [returned |-> FALSE, notified |-> <<>>, image |-> <<>>]
    ELSE [returned |-> TRUE, notified |-> <<"snapshotCaptured">>, image |-> <<s.frame>>]

\* takeSnapshot and the lambda connected to snapshotCaptured, which appends
\* the image with addSnapshotAlert
CameraStream_takeSnapshot(cam, maxAlerts) ==
    /\ LET outcome == TakeSnapshotOutcome(streams[cam])
           added == [k \in 1..Len(outcome.image) |->
                       Alert(cam, "snapshot", "Snapshot captured (unsaved)", TRUE,
                             outcome.image[k])]
       IN /\ Len(m_alerts) + Len(added) <= maxAlerts
          /\ m_alerts' = AddAlerts(m_alerts, added)
          /\ lastCall' = [Call("CameraStream::takeSnapshot", cam, streams[cam].running,
                               streams[cam], <<>>,
                               outcome.notified \o Repeated(AddAlertNotified, Len(added)),
                               <<>>)
                          EXCEPT !.returned = outcome.returned]
    /\ UNCHANGED <<cameraManager, executing, streams, toWorker, toMain, observed>>
    /\ WorkerIdle


\* resetMotionActive / resetRoiAlertActive / resetTripwireAlertActive
ResetOutcome(s, flag) ==
    CASE flag = "motion" ->
           [stream |-> [s EXCEPT !.motionActive = FALSE, !.motionResetAt = 0],
            notified |-> IF s.motionActive THEN <<"motionActiveChanged">> ELSE <<>>]
      [] flag = "roi" ->
           [stream |-> [s EXCEPT !.roiAlertActive = FALSE, !.roiAlertResetAt = 0],
            notified |-> IF s.roiAlertActive THEN <<"roiAlertActiveChanged">> ELSE <<>>]
      [] flag = "tripwire" ->
           [stream |-> [s EXCEPT !.tripwireAlertActive = FALSE, !.tripwireAlertResetAt = 0],
            notified |-> IF s.tripwireAlertActive THEN <<"tripwireAlertActiveChanged">> ELSE <<>>]

ResetAt(s, flag) ==
    CASE flag = "motion" -> s.motionResetAt
      [] flag = "roi" -> s.roiAlertResetAt
      [] flag = "tripwire" -> s.tripwireAlertResetAt

Active(s, flag) ==
    CASE flag = "motion" -> s.motionActive
      [] flag = "roi" -> s.roiAlertActive
      [] flag = "tripwire" -> s.tripwireAlertActive

\* a running reset timer of the stream of camera cam fires, no earlier than
\* the time it was set for
TimerFired(cam, flag, op) ==
    /\ now >= ResetAt(streams[cam], flag)
    /\ streams' = [streams EXCEPT ![cam] = ResetOutcome(streams[cam], flag).stream]
    /\ lastCall' = Call(op, cam, streams[cam].running, streams[cam], <<>>,
                        ResetOutcome(streams[cam], flag).notified, <<>>)
    /\ UNCHANGED <<cameraManager, executing, toWorker, toMain, m_alerts, observed>>
    /\ WorkerIdle

resetMotionActive(cam) ==
    /\ streams[cam].motionResetAt # 0
    /\ TimerFired(cam, "motion", "CameraStream::resetMotionActive")

resetRoiAlertActive(cam) ==
    /\ streams[cam].roiAlertResetAt # 0
    /\ TimerFired(cam, "roi", "CameraStream::resetRoiAlertActive")

resetTripwireAlertActive(cam) ==
    /\ streams[cam].tripwireAlertResetAt # 0
    /\ TimerFired(cam, "tripwire", "CameraStream::resetTripwireAlertActive")

\* CameraStream::setAutoSnapshotOnMotion
setAutoSnapshotOnMotion(cam, enabled) ==
    /\ streams' = [streams EXCEPT ![cam].autoSnapshotOnMotion = enabled]
    /\ lastCall' = Call("CameraStream::setAutoSnapshotOnMotion", cam, streams[cam].running,
                        <<>>, enabled,
                        IF streams[cam].autoSnapshotOnMotion # enabled
                        THEN <<"autoSnapshotOnMotionChanged">> ELSE <<>>, <<>>)
    /\ UNCHANGED <<cameraManager, executing, toWorker, toMain, m_alerts, observed>>
    /\ WorkerIdle

\* CameraStream::setAutoSnapshotOnRoi
setAutoSnapshotOnRoi(cam, enabled) ==
    /\ streams' = [streams EXCEPT ![cam].autoSnapshotOnRoi = enabled]
    /\ lastCall' = Call("CameraStream::setAutoSnapshotOnRoi", cam, streams[cam].running,
                        <<>>, enabled,
                        IF streams[cam].autoSnapshotOnRoi # enabled
                        THEN <<"autoSnapshotOnRoiChanged">> ELSE <<>>, <<>>)
    /\ UNCHANGED <<cameraManager, executing, toWorker, toMain, m_alerts, observed>>
    /\ WorkerIdle

\* CameraStream::setAutoSnapshotOnTripwire
setAutoSnapshotOnTripwire(cam, enabled) ==
    /\ streams' = [streams EXCEPT ![cam].autoSnapshotOnTripwire = enabled]
    /\ lastCall' = Call("CameraStream::setAutoSnapshotOnTripwire", cam, streams[cam].running,
                        <<>>, enabled,
                        IF streams[cam].autoSnapshotOnTripwire # enabled
                        THEN <<"autoSnapshotOnTripwireChanged">> ELSE <<>>, <<>>)
    /\ UNCHANGED <<cameraManager, executing, toWorker, toMain, m_alerts, observed>>
    /\ WorkerIdle

\* AlertLogModel::clear
clear ==
    /\ m_alerts' = <<>>
    /\ lastCall' = Call("AlertLogModel::clear", 0, FALSE, <<>>, <<>>,
                        IF m_alerts = <<>> THEN <<>> ELSE <<"countChanged">>, <<>>)
    /\ UNCHANGED <<cameraManager, executing, streams, toWorker, toMain, observed>>
    /\ WorkerIdle

\* Every worker runs the same captureFrame.  Where the analytics of a
\* worker play no part it is represented by the signals of a frame, queued
\* in the order captureFrame emits them and followed by frameCaptured.
EmissionOrder ==
    <<"motionDetected", "roiMotionDetected", "tripwireCrossed", "loiteringDetected",
      "trackCrossedTripwire">>
InEmissionOrder(S) == SelectSeq(EmissionOrder, LAMBDA signal : signal \in S)
FrameSignals(signals, n) ==
    { InEmissionOrder(S) : S \in { T \in SUBSET signals : Cardinality(T) <= n } }

WorkerOf_captureFrame(cam, signals, maxFrames) ==
    /\ observed' = [observed EXCEPT !.frameNo[cam] = Min(maxFrames, @ + 1)]
    /\ toMain' = toMain
                 \o [k \in 1..Len(signals) |-> Msg(cam, signals[k], observed'.frameNo[cam], <<>>)]
                 \o <<Msg(cam, "frameCaptured", observed'.frameNo[cam], <<>>)>>
    /\ Len(toMain') <= MaxQueued
    /\ lastCall' = NoCall
    /\ UNCHANGED <<cameraManager, executing, streams, toWorker, m_alerts>>
    /\ WorkerIdle

\* the alert-active flags of a stream: the signals of another camera arrive
\* at any time, the reset timers fire when their interval has run out
FlagSignals == {"motionDetected", "roiMotionDetected", "tripwireCrossed", "trackCrossedTripwire"}
OtherCameras == Cameras \ {WorkerCamera}

NextAlertFlags ==
    \/ Tick(TickMs, MaxFlagTicks)
    \/ \E cam \in OtherCameras : \E signals \in FrameSignals(FlagSignals, 1) :
         WorkerOf_captureFrame(cam, signals, MaxFlagFrames)
    \/ \E cam \in OtherCameras : CameraStream_onFrameCaptured(cam)
    \/ \E cam \in OtherCameras : CameraStream_onMotionDetected(cam, MaxFlagAlerts)
    \/ \E cam \in OtherCameras : CameraStream_onRoiMotionDetected(cam, MaxFlagAlerts)
    \/ \E cam \in OtherCameras : CameraStream_onTripwireCrossed(cam, MaxFlagAlerts)
    \/ \E cam \in OtherCameras : CameraStream_onTrackCrossedTripwire(cam, MaxFlagAlerts)
    \/ \E cam \in OtherCameras : resetMotionActive(cam)
    \/ \E cam \in OtherCameras : resetRoiAlertActive(cam)
    \/ \E cam \in OtherCameras : resetTripwireAlertActive(cam)
    \/ clear

SpecAlertFlags == Init /\ [][NextAlertFlags]_vars

\* the alert log fed by every pipeline: an alert with an auto-snapshot flag
\* and a flag of its own, one with a flag of its own, one with neither
AlertSignals == { EmissionOrder[k] : k \in DOMAIN EmissionOrder }
LoggedSignals == {"motionDetected", "trackCrossedTripwire", "loiteringDetected"}

NextAlerts ==
    \/ \E cam \in Cameras : \E signals \in FrameSignals(LoggedSignals, 1) :
         WorkerOf_captureFrame(cam, signals, MaxAlertFrames)
    \/ \E cam \in Cameras : setAutoSnapshotOnMotion(cam, TRUE)
    \/ \E cam \in Cameras : CameraStream_onFrameCaptured(cam)
    \/ \E cam \in Cameras : CameraStream_onMotionDetected(cam, MaxAlerts)
    \/ \E cam \in Cameras : CameraStream_onTrackCrossedTripwire(cam, MaxAlerts)
    \/ \E cam \in Cameras : CameraStream_onLoiteringDetected(cam, MaxAlerts)

SpecAlerts == Init /\ [][NextAlerts]_vars

\* one pipeline with its three auto-snapshot flags switched at any time
NextSnapshots ==
    \/ \E signals \in FrameSignals(FlagSignals, 1) :
         WorkerOf_captureFrame(WorkerCamera, signals, MaxAlertFrames)
    \/ CameraStream_onFrameCaptured(WorkerCamera)
    \/ CameraStream_onMotionDetected(WorkerCamera, MaxAlerts)
    \/ CameraStream_onRoiMotionDetected(WorkerCamera, MaxAlerts)
    \/ CameraStream_onTripwireCrossed(WorkerCamera, MaxAlerts)
    \/ CameraStream_onTrackCrossedTripwire(WorkerCamera, MaxAlerts)
    \/ \E enabled \in BOOLEAN : setAutoSnapshotOnMotion(WorkerCamera, enabled)
    \/ \E enabled \in BOOLEAN : setAutoSnapshotOnRoi(WorkerCamera, enabled)
    \/ \E enabled \in BOOLEAN : setAutoSnapshotOnTripwire(WorkerCamera, enabled)

SpecSnapshots == Init /\ [][NextSnapshots]_vars

\* one pipeline started and stopped at any time, with snapshots taken on
\* request
NextTakeSnapshot ==
    \/ CameraStream_start(WorkerCamera)
    \/ CameraStream_stop(WorkerCamera)
    \/ Worker_start
    \/ Worker_stop
    \/ Worker_captureFrame({0}, {NoPoint}, {<<>>}, MaxTrackId)
    \/ CameraStream_onFrameCaptured(WorkerCamera)
    \/ CameraStream_onErrorOccurred(WorkerCamera)
    \/ CameraStream_takeSnapshot(WorkerCamera, MaxSnapshots)

SpecTakeSnapshot == Init /\ [][NextTakeSnapshot]_vars

\* one pipeline from the frame to the alert log: the worker of WorkerCamera
\* with motion detection and a ROI (set again, it lets the next frame emit)
NextOrder ==
    \/ CameraStream_start(WorkerCamera)
    \/ Worker_start
    \/ Worker_stop
    \/ setMotionEnabled(TRUE)
    \/ setRoiPolygon(RoiSquare)
    \/ Worker_captureFrame(MovingScores, {NoPoint}, { <<>> }, MaxTrackId)
    \/ CameraStream_onFrameCaptured(WorkerCamera)
    \/ CameraStream_onErrorOccurred(WorkerCamera)
    \/ CameraStream_onMotionDetected(WorkerCamera, MaxAlerts)
    \/ CameraStream_onRoiMotionDetected(WorkerCamera, MaxAlerts)

SpecOrder == Init /\ [][NextOrder]_vars

(***************************************************************************)
(* AlertLogModel: removal and export.  The model's rows are counted from 0 *)
(* as in the source; row idx is element idx + 1 of the sequence.           *)
(***************************************************************************)
\* an entry of a QVariantList: an integer, or a text that is no number
Variant(n) == [isInt |-> TRUE, value |-> n]
TextVariant == [isInt |-> FALSE, value |-> 0]

\* QVariant::toInt(&ok)
toInt(var) == [ok |-> var.isInt, value |-> IF var.isInt THEN var.value ELSE 0]

\* QList::removeAt
removeAt(alerts, idx) == SubSeq(alerts, 1, idx) \o SubSeq(alerts, idx + 2, Len(alerts))

\* the entries of indices that convert to a row of alerts, in the given order
RECURSIVE ValidIndices(_, _)
ValidIndices(alerts, indices) ==
    IF indices = <<>> THEN <<>>
    ELSE LET conv == toInt(Head(indices))
             rest == ValidIndices(alerts, Tail(indices))
         IN  IF conv.ok /\ conv.value >= 0 /\ conv.value < Len(alerts)
             THEN <<conv.value>> \o rest ELSE rest

\* std::sort(..., std::greater<int>()): equal entries stay in the list
RECURSIVE SortedDescending(_)
SortedDescending(seq) ==
    IF seq = <<>> THEN <<>>
    ELSE LET m == CHOOSE k \in DOMAIN seq : \A j \in DOMAIN seq : seq[j] <= seq[k]
         IN  <<seq[m]>> \o SortedDescending(SubSeq(seq, 1, m - 1) \o SubSeq(seq, m + 1, Len(seq)))

\* the removal loop of removeAlerts: each entry is checked against the
\* list as it is by then
RECURSIVE RemoveEach(_, _)
RemoveEach(alerts, sortedIndices) ==
    IF sortedIndices = <<>> THEN alerts
    ELSE LET idx == Head(sortedIndices)
         IN  RemoveEach(IF idx >= 0 /\ idx < Len(alerts) THEN removeAt(alerts, idx) ELSE alerts,
                        Tail(sortedIndices))

\* a call of AlertLogModel from the main thread (QML)
AlertLogCall(op, arg, alerts, notified, written, returned) ==
    /\ m_alerts' = alerts
    /\ lastCall' = [Call(op, 0, FALSE, <<>>, arg, notified, written) EXCEPT !.returned = returned]
    /\ UNCHANGED <<cameraManager, executing, streams, toWorker, toMain, observed>>
    /\ WorkerIdle

\* AlertLogModel::addMotionAlert, called directly
addMotionAlert(cameraName, message) ==
    /\ Len(m_alerts) < MaxAlerts
    /\ AlertLogCall("AlertLogModel::addMotionAlert", <<cameraName, message>>,
                    addAlert(m_alerts, Alert(cameraName, "motion",
                                             IF message = "" THEN "Motion detected" ELSE message,
                                             FALSE, 0)),
                    AddAlertNotified, <<>>, TRUE)

\* AlertLogModel::addSnapshotAlert, called directly
addSnapshotAlert(cameraName) ==
    /\ Len(m_alerts) < MaxAlerts
    /\ AlertLogCall("AlertLogModel::addSnapshotAlert", <<cameraName>>,
                    addAlert(m_alerts, Alert(cameraName, "snapshot", "Snapshot captured (unsaved)",
                                             TRUE, 0)),
                    AddAlertNotified, <<>>, TRUE)

\* AlertLogModel::removeAlert
removeAlert(index) ==
    \/ /\ index < 0 \/ index >= Len(m_alerts)
       /\ AlertLogCall("AlertLogModel::removeAlert", <<index>>, m_alerts, <<>>, <<>>, TRUE)
    \/ /\ ~(index < 0 \/ index >= Len(m_alerts))
       /\ AlertLogCall("AlertLogModel::removeAlert", <<index>>, removeAt(m_alerts, index),
                       <<"countChanged">>, <<>>, TRUE)

\* AlertLogModel::removeAlerts
removeAlerts(indices) ==
    /\ Len(indices) <= MaxIndices
    /\ AlertLogCall("AlertLogModel::removeAlerts", indices,
                    IF indices = <<>> THEN m_alerts
                    ELSE RemoveEach(m_alerts, SortedDescending(ValidIndices(m_alerts, indices))),
                    IF indices = <<>> THEN <<>> ELSE <<"countChanged">>, <<>>, TRUE)

\* the first alert of each id
RECURSIVE OnePerId(_, _)
OnePerId(alerts, ids) ==
    IF alerts = <<>> THEN <<>>
    ELSE (IF Head(alerts).id \in ids THEN <<>> ELSE <<Head(alerts)>>)
         \o OnePerId(Tail(alerts), ids \cup {Head(alerts).id})
\* a slip: the export takes the id for a key and writes one row for each
ExportAlertsOutcomeKeyedById(alerts, selected, writable) ==
    [alerts |-> alerts, written |-> IF writable THEN OnePerId(selected, {}) ELSE <<>>, returned |-> writable]
\* exportAlertsToCsv / exportAlertsToJson: the rows written and the value
\* returned; the file can be written or not
ExportAlertsOutcome(alerts, selected, writable) ==
    [alerts |-> alerts, written |-> IF writable THEN selected ELSE <<>>, returned |-> writable]

\* a slip: the selected rows are taken out of the list (takeAt for at)
ExportSelectedOutcomeTaking(alerts, indices, writable) ==
    LET valid == ValidIndices(alerts, indices)
        selectedAlerts == [k \in DOMAIN valid |-> alerts[valid[k] + 1]]
    IN  IF selectedAlerts = <<>>
        THEN [alerts |-> alerts, written |-> <<>>, returned |-> FALSE]
        ELSE ExportAlertsOutcome(RemoveEach(alerts, SortedDescending(valid)), selectedAlerts, writable)
\* exportSelectedToCsv / exportSelectedToJson
ExportSelectedOutcome(alerts, indices, writable) ==
    LET valid == ValidIndices(alerts, indices)
        selectedAlerts == [k \in DOMAIN valid |-> alerts[valid[k] + 1]]
    IN  IF selectedAlerts = <<>>
        THEN [alerts |-> alerts, written |-> <<>>, returned |-> FALSE]
        ELSE ExportAlertsOutcome(alerts, selectedAlerts, writable)

Exported(op, arg, outcome) ==
    AlertLogCall(op, arg, outcome.alerts, <<>>, outcome.written, outcome.returned)

exportToCsv(writable) ==
    /\ writable \in BOOLEAN
    /\ Exported("AlertLogModel::exportToCsv", <<>>, ExportAlertsOutcome(m_alerts, m_alerts, writable))

exportToJson(writable) ==
    /\ writable \in BOOLEAN
    /\ Exported("AlertLogModel::exportToJson", <<>>, ExportAlertsOutcome(m_alerts, m_alerts, writable))

exportSelectedToCsv(indices, writable) ==
    /\ Len(indices) <= MaxIndices
    /\ Exported("AlertLogModel::exportSelectedToCsv", indices,
                ExportSelectedOutcome(m_alerts, indices, writable))

exportSelectedToJson(indices, writable) ==
    /\ Len(indices) <= MaxIndices
    /\ Exported("AlertLogModel::exportSelectedToJson", indices,
                ExportSelectedOutcome(m_alerts, indices, writable))

\* the entries tried as indices: rows in and out of range and a text
IndexEntries == { Variant(n) : n \in -1 .. MaxAlerts - 1 } \cup {TextVariant}
IndexLists == UNION { [1 .. n -> IndexEntries] : n \in 0 .. MaxIndices }

NextAlertLog ==
    \/ \E cameraName \in Cameras, message \in {"", "Motion detected (score: %1)"} :
         addMotionAlert(cameraName, message)
    \/ \E cameraName \in Cameras : addSnapshotAlert(cameraName)
    \/ \E index \in -1 .. MaxAlerts : removeAlert(index)
    \/ \E indices \in IndexLists : removeAlerts(indices)
    \/ clear
    \/ \E writable \in BOOLEAN : exportToCsv(writable)
    \/ \E writable \in BOOLEAN : exportToJson(writable)
    \/ \E indices \in IndexLists, writable \in BOOLEAN : exportSelectedToCsv(indices, writable)
    \/ \E indices \in IndexLists, writable \in BOOLEAN : exportSelectedToJson(indices, writable)

SpecAlertLog == Init /\ [][NextAlertLog]_vars

(***************************************************************************)
(* AlertLogModel: saving the snapshot of an alert, and the ids of alerts   *)
(* added within one millisecond or in different ones.                      *)
(***************************************************************************)
\* a slip: the alert is marked as saved before the image is written
ExportSnapshotOutcomeMarkingFirst(alerts, index, filePath, writable) ==
    IF index < 0 \/ index >= Len(alerts) THEN [alerts |-> alerts, notified |-> <<>>, returned |-> FALSE]
    ELSE IF ~alerts[index + 1].hasImage THEN [alerts |-> alerts, notified |-> <<>>, returned |-> FALSE]
    ELSE [alerts |-> [alerts EXCEPT ![index + 1].snapshotPath = filePath,
                                    ![index + 1].message = "Snapshot saved"],
          notified |-> IF writable THEN << <<"dataChanged", index, index>> >> ELSE <<>>,
          returned |-> writable]
\* AlertLogModel::exportSnapshotAsPng: the list after it, the rows notified
\* and the value returned; the directory and file can be written or not
ExportSnapshotOutcome(alerts, index, filePath, writable) ==
    IF index < 0 \/ index >= Len(alerts) THEN [alerts |-> alerts, notified |-> <<>>, returned |-> FALSE]
    ELSE IF ~alerts[index + 1].hasImage THEN [alerts |-> alerts, notified |-> <<>>, returned |-> FALSE]
    ELSE IF ~writable THEN [alerts |-> alerts, notified |-> <<>>, returned |-> FALSE]
    ELSE [alerts |-> [alerts EXCEPT ![index + 1].snapshotPath = filePath,
                                    ![index + 1].message = "Snapshot saved"],
          notified |-> << <<"dataChanged", index, index>> >>,
          returned |-> TRUE]

exportSnapshotAsPng(index, filePath, writable) ==
    /\ writable \in BOOLEAN
    /\ LET outcome == ExportSnapshotOutcome(m_alerts, index, filePath, writable)
       IN  AlertLogCall("AlertLogModel::exportSnapshotAsPng", <<index, filePath, writable>>,
                        outcome.alerts, outcome.notified, <<>>, outcome.returned)

FilePaths == {"out/a.png", "out/b.png"}

\* alerts added within one millisecond or in different ones
NextAlertIds ==
    \/ \E cameraName \in Cameras : addMotionAlert(cameraName, "")
    \/ addSnapshotAlert(WorkerCamera)
    \/ Tick(1, MaxIdTicks)
    \/ \E index \in -1 .. MaxAlerts, filePath \in FilePaths, writable \in BOOLEAN :
         exportSnapshotAsPng(index, filePath, writable)
    \/ \E writable \in BOOLEAN : exportToCsv(writable)
    \/ \E writable \in BOOLEAN : exportToJson(writable)

SpecAlertIds == Init /\ [][NextAlertIds]_vars

(***************************************************************************)
(* CameraManager: the configuration file, the four slots and the streams   *)
(* made for them.  Slots and indexes are counted as in the source; slot k  *)
(* is element k + 1 of m_cameras.                                          *)
(***************************************************************************)
\* a source text that is no number
Url == [isInt |-> FALSE, value |-> "rtsp://host/stream"]

\* an element of the "cameras" array of cameras.json
CameraEntry(id, type, source, enabled, roiPoints) ==
    [id |-> id, name |-> id, type |-> type, source |-> source, enabled |-> enabled,
     roiPoints |-> roiPoints, tripwire |-> <<NoPoint, NoPoint>>]

\* the file: whether it opens, what QJsonDocument::fromJson makes of it,
\* and the elements of root["cameras"].toArray()
ConfigFile(opens, json, cameras) == [opens |-> opens, json |-> json, cameras |-> cameras]

\* the CameraConfig of an element
ConfigOf(entry) ==
    [id |-> entry.id, name |-> entry.name, type |-> entry.type, source |-> entry.source,
     enabled |-> entry.enabled,
     roiPoints |-> entry.roiPoints, hasRoi |-> entry.roiPoints # <<>>,
     tripwireStart |-> entry.tripwire[1], tripwireEnd |-> entry.tripwire[2],
     hasTripwire |-> ~(entry.tripwire[1] = NoPoint /\ entry.tripwire[2] = NoPoint)]

\* the loop of loadConfiguration: every element is appended, the loop ends
\* once m_configs holds MAX_CAMERA_SLOTS of them
RECURSIVE ConfigsOf(_, _)
ConfigsOf(cameras, configs) ==
    IF cameras = <<>> THEN configs
    ELSE LET appended == Append(configs, ConfigOf(Head(cameras)))
         IN  IF Len(appended) >= MAX_CAMERA_SLOTS THEN appended
             ELSE ConfigsOf(Tail(cameras), appended)

\* a slip: a file without cameras counts as loaded
loadConfigurationAcceptingNone(m_configs, file) ==
    IF ~file.opens THEN [ok |-> FALSE, m_configs |-> m_configs]
    ELSE IF file.json # "object" THEN [ok |-> FALSE, m_configs |-> m_configs]
    ELSE [ok |-> TRUE, m_configs |-> ConfigsOf(file.cameras, <<>>)]
\* CameraManager::loadConfiguration: its return value and m_configs after it
loadConfiguration(m_configs, file) ==
    IF ~file.opens THEN [ok |-> FALSE, m_configs |-> m_configs]
    ELSE IF file.json # "object" THEN [ok |-> FALSE, m_configs |-> m_configs]
    ELSE LET configs == ConfigsOf(file.cameras, <<>>)
         IN  [ok |-> configs # <<>>, m_configs |-> configs]

\* the configuration the constructor falls back to
DefaultConfig ==
    [id |-> "cam1", name |-> "Default Camera", type |-> "usb", source |-> Variant(0),
     enabled |-> TRUE, roiPoints |-> <<>>, hasRoi |-> FALSE,
     tripwireStart |-> NoPoint, tripwireEnd |-> NoPoint, hasTripwire |-> FALSE]

\* an empty slot
NullStream == [null |-> TRUE]

\* CameraStream::CameraStream: the source selection, and the worker made
\* with CaptureWorker(m_cameraIndex) and, for a URL, setSourceUrl
CameraStream_new(id, source, sourceType, name) ==
    LET index == sourceType = "usb" \/ toInt(source).value >= 0
        m_cameraIndex == IF index THEN toInt(source).value ELSE -1
    IN  [null |-> FALSE, m_id |-> id, m_cameraName |-> name, m_source |-> source,
         m_sourceType |-> sourceType,
         m_cameraIndex |-> m_cameraIndex, m_isUrlSource |-> ~index,
         m_sourceUrl |-> IF index THEN "" ELSE source.value,
         worker |-> IF index
                    THEN [m_cameraIndex |-> m_cameraIndex, m_isUrlSource |-> FALSE, m_sourceUrl |-> "",
                          m_detector |-> "null"]
                    ELSE [m_cameraIndex |-> -1, m_isUrlSource |-> TRUE, m_sourceUrl |-> source.value,
                          m_detector |-> "null"],
         m_detector |-> "null", m_aiConfidenceThreshold |-> 50, posted |-> <<>>]

\* what CaptureWorker::start opens
Opened(worker) ==
    IF worker.m_isUrlSource THEN <<"url", worker.m_sourceUrl>>
    ELSE <<"device", worker.m_cameraIndex>>

\* the stream of an enabled configuration: ROI, tripwire and detector are
\* set on it, each posting a slot invocation to its worker
StreamOf(config, detector) ==
    LET stream == CameraStream_new(config.id, config.source, config.type, config.name)
    IN  [stream EXCEPT
           !.m_detector = detector,
           !.posted =
               (IF config.hasRoi /\ config.roiPoints # <<>>
                THEN << <<"setRoiPolygon", config.roiPoints>> >> ELSE <<>>)
               \o (IF config.hasTripwire
                   THEN << <<"setTripwire", config.tripwireStart, config.tripwireEnd>> >> ELSE <<>>)
               \o (IF detector # "null" THEN << <<"setObjectDetector", detector>> >> ELSE <<>>)]

\* a slip: the streams of the enabled configurations fill the first slots
createCameraStreamsCompacted(m_configs, detector) ==
    LET enabled == SelectSeq(m_configs, LAMBDA config : config.enabled)
    IN  [i \in 1 .. MAX_CAMERA_SLOTS |->
           IF i <= Len(enabled) THEN StreamOf(enabled[i], detector) ELSE NullStream]
\* CameraManager::createCameraStreams: m_cameras after it
createCameraStreams(m_configs, detector) ==
    [i \in 1 .. MAX_CAMERA_SLOTS |->
       IF i <= Len(m_configs) /\ m_configs[i].enabled
       THEN StreamOf(m_configs[i], detector) ELSE NullStream]

\* a call on the CameraManager from the main thread
ManagerCall(op, arg, manager, returned) ==
    /\ cameraManager' = manager
    /\ lastCall' = [Call(op, 0, FALSE, <<>>, arg, <<>>, <<>>) EXCEPT !.returned = returned]
    /\ UNCHANGED <<streams, toWorker, toMain, m_alerts, observed, executing>>
    /\ WorkerIdle

\* CameraManager::CameraManager with the file found next to the executable;
\* detector is what became of m_detector ("null" if its making threw) and
\* m_confThreshold the threshold of that ObjectDetector, in percent: made with
\* 0.5f, and set to the 0.5 of each stream by setObjectDetector
CameraManager_new(file, detector) ==
    /\ ~cameraManager.constructed
    /\ LET loaded == loadConfiguration(<<>>, file)
           m_configs == IF loaded.ok THEN loaded.m_configs
                        ELSE Append(loaded.m_configs, DefaultConfig)
       IN  ManagerCall("CameraManager::CameraManager", <<>>,
                       [constructed |-> TRUE, file |-> file, m_detector |-> detector,
                        m_confThreshold |-> 50,
                        m_configs |-> m_configs,
                        m_cameras |-> createCameraStreams(m_configs, detector)],
                       TRUE)

\* CameraManager::cameraAvailable (index counted from 1)
cameraAvailable(index) ==
    /\ cameraManager.constructed
    /\ LET idx == index - 1
       IN  ManagerCall("CameraManager::cameraAvailable", <<index>>, cameraManager,
                       /\ idx >= 0
                       /\ idx < Len(cameraManager.m_cameras)
                       /\ cameraManager.m_cameras[idx + 1] # NullStream)

\* CameraManager::camera1 .. camera4: m_cameras.value(slot, nullptr)
camera(slot) ==
    /\ cameraManager.constructed
    /\ ManagerCall("CameraManager::camera", <<slot>>, cameraManager,
                   IF slot >= 0 /\ slot < Len(cameraManager.m_cameras)
                   THEN cameraManager.m_cameras[slot + 1] ELSE NullStream)

\* the elements tried: usb and network cameras, enabled or not, with a ROI
\* or without
CameraEntries ==
    { CameraEntry("camA", "usb", Variant(1), TRUE, RoiSquare),
      CameraEntry("camB", "usb", Variant(0), FALSE, <<>>),
      CameraEntry("camC", "rtsp", Url, TRUE, <<>>),
      CameraEntry("camD", "ip", Variant(2), TRUE, <<>>) }

ConfigFiles ==
    { ConfigFile(FALSE, "invalid", <<>>), ConfigFile(TRUE, "invalid", <<>>),
      ConfigFile(TRUE, "array", <<>>) }
    \cup { ConfigFile(TRUE, "object", cameras) :
             cameras \in UNION { [1 .. n -> CameraEntries] : n \in 0 .. MaxEntries } }

NextManager ==
    \/ \E file \in ConfigFiles, detector \in Detectors \cup {"null"} :
         CameraManager_new(file, detector)
    \/ \E index \in 0 .. MAX_CAMERA_SLOTS + 1 : cameraAvailable(index)
    \/ \E slot \in 0 .. MAX_CAMERA_SLOTS - 1 : camera(slot)

SpecManager == Init /\ [][NextManager]_vars

(***************************************************************************)
(* The ObjectDetector of the CameraManager and the threads that call it.   *)
(* createCameraStreams gives m_detector.get() to every stream, so the      *)
(* workers of all cameras hold the same object.  Here the worker of a      *)
(* camera is one whose pipeline runs with detection enabled; a call of a   *)
(* detector method begins in one step and returns in another.              *)
(***************************************************************************)
\* the detector the worker of camera cam holds once its queued
\* setObjectDetector has run
DetectorOf(cam) ==
    IF cameraManager.constructed /\ cameraManager.m_cameras[cam] # NullStream
    THEN cameraManager.m_cameras[cam].m_detector ELSE "null"

\* a thread enters or leaves a method of the detector
DetectorCall(thread, from, to) ==
    /\ executing[thread] = from
    /\ executing' = [executing EXCEPT ![thread] = to]
    /\ lastCall' = NoCall
    /\ UNCHANGED <<cameraManager, streams, toWorker, toMain, m_alerts, observed>>
    /\ WorkerIdle

\* CaptureWorker::processAIDetection on the worker thread of camera cam:
\* m_detector->infer(frame) is entered
WorkerOf_inferEntered(cam) ==
    /\ DetectorOf(cam) # "null"
    /\ DetectorLoaded(DetectorOf(cam))
    /\ DetectorCall(cam, "none", "infer")

\* ... and returns
WorkerOf_inferReturned(cam) ==
    /\ executing[cam] = "infer"
    /\ DetectorCall(cam, "infer", "none")

\* CaptureWorker::setAiConfidenceThreshold on the worker thread of camera
\* cam: m_detector->setConfidenceThreshold is entered
WorkerOf_setConfidenceThresholdEntered(cam) ==
    /\ DetectorOf(cam) # "null"
    /\ DetectorCall(cam, "none", "setConfidenceThreshold")

\* ... and returns
WorkerOf_setConfidenceThresholdReturned(cam) ==
    /\ executing[cam] = "setConfidenceThreshold"
    /\ DetectorCall(cam, "setConfidenceThreshold", "none")

\* files with an entry for each camera of the model
CameraFiles ==
    { ConfigFile(TRUE, "object", cameras) : cameras \in [Cameras -> CameraEntries] }

NextDetector ==
    \/ \E file \in CameraFiles, detector \in Detectors \cup {"null"} :
         CameraManager_new(file, detector)
    \/ \E cam \in Cameras : WorkerOf_inferEntered(cam)
    \/ \E cam \in Cameras : WorkerOf_inferReturned(cam)
    \/ \E cam \in Cameras : WorkerOf_setConfidenceThresholdEntered(cam)
    \/ \E cam \in Cameras : WorkerOf_setConfidenceThresholdReturned(cam)

SpecDetector == Init /\ [][NextDetector]_vars

(***************************************************************************)
(* The confidence threshold: every stream keeps its own value and posts it *)
(* to its worker, and the worker sets it on the detector it holds.         *)
(* Thresholds are in percent.                                              *)
(***************************************************************************)
\* a call on the stream of camera cam kept by the CameraManager, or a slot
\* run by its worker
ManagedStreamCall(op, cam, arg, manager) ==
    /\ cameraManager' = manager
    /\ lastCall' = Call(op, cam, FALSE, cameraManager.m_cameras[cam], arg, <<>>, <<>>)
    /\ UNCHANGED <<streams, toWorker, toMain, m_alerts, observed, executing>>
    /\ WorkerIdle

\* CameraStream::setAiConfidenceThreshold
CameraStream_setAiConfidenceThreshold(cam, threshold) ==
    /\ cameraManager.constructed
    /\ cameraManager.m_cameras[cam] # NullStream
    /\ Len(cameraManager.m_cameras[cam].posted) < MaxPosted
    /\ LET stream == cameraManager.m_cameras[cam]
           bounded == qBound(0, threshold, 100)
       IN  ManagedStreamCall(
               "CameraStream::setAiConfidenceThreshold", cam, <<threshold>>,
               IF qFuzzyCompare(stream.m_aiConfidenceThreshold, bounded)
               THEN cameraManager
               ELSE [cameraManager EXCEPT
                       !.m_cameras[cam].m_aiConfidenceThreshold = bounded,
                       !.m_cameras[cam].posted =
                           Append(@, <<"setAiConfidenceThreshold", bounded>>)])

\* the worker thread of camera cam runs the next slot posted by its stream:
\* CaptureWorker::setObjectDetector, CaptureWorker::setAiConfidenceThreshold
\* (on the detector the worker holds, if any); the ROI and the tripwire of
\* the worker are not part of this record
WorkerOf_slot(cam) ==
    /\ cameraManager.constructed
    /\ cameraManager.m_cameras[cam] # NullStream
    /\ cameraManager.m_cameras[cam].posted # <<>>
    /\ LET call == Head(cameraManager.m_cameras[cam].posted)
           worker == cameraManager.m_cameras[cam].worker
           ran == [cameraManager EXCEPT !.m_cameras[cam].posted = Tail(@)]
       IN  ManagedStreamCall(
               call[1], cam, Tail(call),
               CASE call[1] = "setObjectDetector" ->
                      [ran EXCEPT !.m_cameras[cam].worker.m_detector = call[2]]
                 [] call[1] = "setAiConfidenceThreshold" ->
                      IF worker.m_detector # "null"
                      THEN [ran EXCEPT !.m_confThreshold = call[2]]
                      ELSE ran
                 [] OTHER -> ran)

\* the thresholds asked for
ThresholdRequests == {50, 80}

NextThresholds ==
    \/ \E file \in CameraFiles, detector \in Detectors : CameraManager_new(file, detector)
    \/ \E cam \in Cameras, threshold \in ThresholdRequests :
         CameraStream_setAiConfidenceThreshold(cam, threshold)
    \/ \E cam \in Cameras : WorkerOf_slot(cam)

SpecThresholds == Init /\ [][NextThresholds]_vars

(***************************************************************************)
(* The frame loop with the detector: the frames from one infer call to the *)
(* next are counted by an observer, up to one more than the interval.  A   *)
(* frame has called infer when it was captured with the detector active    *)
(* and has left the frame counter at 0.                                    *)
(***************************************************************************)
InferObserved(captured, called) ==
    IF ~captured THEN observed
    ELSE IF called
    THEN [observed EXCEPT
            !.inferGap = IF observed.sinceInfer = -1 THEN @
                         ELSE Min(AI_PROCESS_INTERVAL + 1, observed.sinceInfer + 1),
            !.sinceInfer = 0]
    ELSE [observed EXCEPT
            !.sinceInfer = IF @ = -1 THEN -1 ELSE Min(AI_PROCESS_INTERVAL + 1, @ + 1)]

captureFrameCounting(scores, centroids, detectionLists, maxTrackId) ==
    /\ CaptureWorker_captureFrameFrom(scores, centroids, detectionLists, maxTrackId)
    /\ observed' = InferObserved(emitted'.frameCaptured # {},
                                 AiActive /\ m_aiFrameCounter' = 0)
    /\ lastCall' = NoCall
    /\ UNCHANGED <<cameraManager, executing, streams, toWorker, toMain, m_alerts>>

NextInfer ==
    \/ \E opens \in BOOLEAN : start(opens)
    \/ stop
    \/ captureFrameCounting({0}, {NoPoint}, { <<>> }, MaxTrackId)
    \/ \E enabled \in BOOLEAN : setAiEnabled(enabled)
    \/ \E detector \in Detectors : setObjectDetector(detector)

SpecInfer == Init /\ [][NextInfer]_vars

(***************************************************************************)
(* Properties                                                              *)
(***************************************************************************)
\* C1: any two consecutive whole-frame motion events (motionDetected) of one
\* worker are at least 2000 ms apart
MotionEventsSpaced ==
    \A e \in emitted.motionDetected : e.gap = -1 \/ e.gap >= 2000
\* a motion event at the first frame time past the interval after the previous one
MotionEventAfterInterval ==
    \E e \in emitted.motionDetected : e.gap = 3000

TrackCrossingsSpaced ==
    \A e \in emitted.trackCrossedTripwire : e.gap = -1 \/ e.gap >= 2000
\* a track crosses back exactly 2000 ms after its previous crossing event
TrackCrossingAtInterval ==
    \E e \in emitted.trackCrossedTripwire : e.gap = 2000

\* C5 as stated: a frame captured while m_motionEnabled is false emits no
\* motion event, no motion_roi event and no tripwire event of either origin
NoAlertsWhileMotionDisabled ==
    ~m_motionEnabled =>
        /\ emitted.motionDetected = {}
        /\ emitted.roiMotionDetected = {}
        /\ emitted.tripwireCrossed = {}
        /\ emitted.trackCrossedTripwire = {}
\* C5 amended: a frame captured while m_motionEnabled is false emits no
\* motion event, no motion_roi event and no mask-centroid tripwire event
\* (the tracker still emits per-track tripwire events when AI is enabled)
NoMotionPathAlertsWhileMotionDisabled ==
    ~m_motionEnabled =>
        /\ emitted.motionDetected = {}
        /\ emitted.roiMotionDetected = {}
        /\ emitted.tripwireCrossed = {}
\* a frame captured with motion disabled, an ROI and a tripwire set, after
\* motion alerts had been emitted, on which the tracker ran
FrameWhileMotionDisabled ==
    /\ ~m_motionEnabled
    /\ emitted.frameCaptured # {}
    /\ m_hasRoi /\ m_hasTripwire
    /\ history.motionAt # 0 /\ history.roiAt # 0 /\ history.tripwireAt # 0
    /\ trackerRun.ran

\* C6: for every track at most one loitering event is emitted between an ROI
\* entry and the following exit (a later occupancy can emit again)
LoiteringOncePerOccupancy ==
    \A e \in emitted.loiteringDetected : e.inVisit <= 1
\* a track's second loitering event, the first of its current occupancy
LoiteringAfterReentry ==
    \E e \in emitted.loiteringDetected : e.total = 2 /\ e.inVisit = 1

\* C7: within one invocation of updateTracks no two detections are assigned
\* to the same track
TrackUpdatedOncePerInvocation ==
    trackerRun.ran =>
        \A j, k \in DOMAIN trackerRun.assigns :
            j # k => trackerRun.assigns[j].track # trackerRun.assigns[k].track

\* C8: the updateTracks invocation that creates a track emits no
\* trackCrossedTripwire event for that track
NoCrossingAtBirth ==
    \A e \in emitted.trackCrossedTripwire : ~e.born

\* C9: a detection is assigned to an existing track only if its normalized
\* distance to the track's centroid is below 0.1, and then to the track at
\* minimum distance, lowest id among equals; with no track below 0.1 it
\* creates a track
AssignedToNearestTrack ==
    trackerRun.ran =>
        \A k \in DOMAIN trackerRun.assigns :
            LET a == trackerRun.assigns[k]
                d2(i) == Dist2(a.seen[i], a.centroid)
                near == { i \in DOMAIN a.seen : d2(i) * 100 < GridN * GridN }
            IN  IF near = {}
                THEN a.created /\ a.track \notin DOMAIN a.seen
                ELSE /\ ~a.created
                     /\ a.track \in near
                     /\ \A i \in near : \/ d2(a.track) < d2(i)
                                        \/ d2(a.track) = d2(i) /\ a.track <= i
\* one invocation with a detection at the same distance below 0.1 from two
\* tracks, and a detection creating a track with a track at exactly 0.1
DetectionBetweenTwoTracks ==
    /\ trackerRun.ran
    /\ \E k \in DOMAIN trackerRun.assigns :
         LET a == trackerRun.assigns[k]
         IN  \E i, j \in DOMAIN a.seen :
               /\ i # j
               /\ Dist2(a.seen[i], a.centroid) = Dist2(a.seen[j], a.centroid)
               /\ Dist2(a.seen[i], a.centroid) * 100 < GridN * GridN
    /\ \E k \in DOMAIN trackerRun.assigns :
         LET a == trackerRun.assigns[k]
         IN  /\ a.created
             /\ \E i \in DOMAIN a.seen :
                   Dist2(a.seen[i], a.centroid) * 100 = GridN * GridN

\* C10: after updateTracks at time now the map holds no track with
\* now - lastSeenMs > 2000, and every track that was in the map with
\* now - lastSeenMs <= 2000 is still in it
StaleTracksRemoved ==
    trackerRun.ran =>
        /\ \A i \in DOMAIN m_tracks : trackerRun.time - m_tracks[i].lastSeenMs <= 2000
        /\ \A i \in DOMAIN trackerRun.preCleanup :
             trackerRun.time - trackerRun.preCleanup[i] <= 2000 => i \in DOMAIN m_tracks
\* one invocation removes a track and keeps a track last seen 2000 ms ago
TrackRemovedAndTrackKept ==
    /\ trackerRun.ran
    /\ \E i \in DOMAIN trackerRun.preCleanup : i \notin DOMAIN m_tracks
    /\ \E i \in DOMAIN m_tracks : trackerRun.time - m_tracks[i].lastSeenMs = 2000

(***************************************************************************)
(* Life cycle of a pipeline                                                *)
(***************************************************************************)
\* C11 (as stated): once the stream has handled the error of a start whose
\* source could not be opened, it is not running and its status is
\* "Error: ...".
FailedOpenLeavesErrorStatus ==
    (/\ lastCall.op = "CameraStream::onErrorOccurred"
     /\ lastCall.arg[1] = "Failed to open camera")
      => /\ ~streams[WorkerCamera].running
         /\ IsErrorStatus(streams[WorkerCamera].status)

\* C12 (as stated): the error of a single empty read, handled by a running
\* stream, leaves the stream running.
SingleEmptyReadKeepsRunning ==
    (/\ lastCall.op = "CameraStream::onErrorOccurred"
     /\ lastCall.arg = <<"Failed to capture frame", 1>>
     /\ lastCall.wasRunning)
      => streams[WorkerCamera].running

\* C13: stop is idempotent at both levels.  CameraStream::stop on a stream
\* that is not running leaves the stream as it was, emits no change
\* notification and posts nothing to the worker; CaptureWorker::stop on a
\* worker that is not running leaves the worker as it was and emits no
\* signal; after any CameraStream::stop a second one changes nothing.
StopIsIdempotent ==
    /\ (lastCall.op = "CameraStream::stop" /\ ~lastCall.wasRunning)
         => /\ streams[WorkerCamera] = lastCall.before
            /\ lastCall.notified = <<>>
            /\ lastCall.posted = <<>>
    /\ lastCall.op = "CameraStream::stop"
         => StopOutcome(streams[WorkerCamera])
              = [stream |-> streams[WorkerCamera], notified |-> <<>>, posted |-> <<>>]
    /\ (lastCall.op = "CaptureWorker::stop" /\ ~lastCall.wasRunning)
         => /\ <<m_running, captureOpened, timerActive>> = lastCall.before
            /\ emitted = NoSignals

\* C13 witness: stop was called on a stream already stopped, whose status
\* is an error status, while a message to the worker is still queued
StopCalledOnStoppedStream ==
    /\ lastCall.op = "CameraStream::stop"
    /\ ~lastCall.wasRunning
    /\ IsErrorStatus(streams[WorkerCamera].status)
    /\ toWorker # <<>>

\* C14 (as stated): whenever stop has returned and no start has followed,
\* the worker has ceased capturing and the capture handle is released.
StopJoinsWorker ==
    ~streams[WorkerCamera].running
      => /\ ~captureOpened
         /\ ~timerActive
         /\ emitted.frameCaptured = {}

\* C14 (amended): stop only posts a stop request; once the worker has
\* processed every slot posted to it and the stream is not running, the
\* worker has ceased capturing and the capture handle is released.
StopRequestReleasesCapture ==
    (~streams[WorkerCamera].running /\ toWorker = <<>>)
      => /\ ~m_running
         /\ ~captureOpened
         /\ ~timerActive
         /\ emitted.frameCaptured = {}

\* C14 witness: a worker that was capturing has just processed the stop
\* request of a stopped stream, the last slot posted to it
WorkerStoppedOnRequest ==
    /\ lastCall.op = "CaptureWorker::stop"
    /\ lastCall.wasRunning
    /\ lastCall.before = <<TRUE, TRUE, TRUE>>
    /\ ~streams[WorkerCamera].running
    /\ toWorker = <<>>

(***************************************************************************)
(* Alert-active flags                                                      *)
(***************************************************************************)
AlertFlags == {"motion", "roi", "tripwire"}
ResetInterval(flag) ==
    CASE flag = "motion" -> MOTION_RESET_INTERVAL_MS
      [] flag = "roi" -> ROI_ALERT_RESET_INTERVAL_MS
      [] flag = "tripwire" -> TRIPWIRE_ALERT_RESET_INTERVAL_MS

\* C15: each alert-active flag is true right after its event is received;
\* while it is true its reset timer is set for one interval (2000 ms) after
\* the last such event, so a new event restarts the interval; the flag is
\* false only if no event was received or the interval since the last one
\* has run out.
AlertFlagHeldForInterval ==
    \A cam \in Cameras : \A flag \in AlertFlags :
      LET s == streams[cam]
          at == observed.eventAt[cam][flag]
      IN /\ (lastCall.cam = cam /\ FlagOf(lastCall.op) = flag) => Active(s, flag)
         /\ Active(s, flag) <=> ResetAt(s, flag) # 0
         /\ Active(s, flag) => ResetAt(s, flag) = at + ResetInterval(flag)
         /\ (~Active(s, flag) /\ at # 0) => now >= at + ResetInterval(flag)

\* C15 witness: a tripwire event is received while the flag is active and
\* its timer has half the interval left; the timer is set anew
AlertIntervalRestarted ==
    /\ lastCall.op = "trackCrossedTripwire"
    /\ lastCall.before.tripwireAlertActive
    /\ lastCall.before.tripwireAlertResetAt = now + TickMs
    /\ streams[lastCall.cam].tripwireAlertResetAt = now + TRIPWIRE_ALERT_RESET_INTERVAL_MS

(***************************************************************************)
(* Detector rate                                                           *)
(***************************************************************************)
\* C16: from one call of ObjectDetector::infer to the next, the frame of the
\* second call included, at least AI_PROCESS_INTERVAL frames are captured,
\* whatever setAiEnabled and setObjectDetector calls come in between.
InferCallsSpaced ==
    observed.inferGap = 0 \/ observed.inferGap >= AI_PROCESS_INTERVAL

\* C16 witness: infer has just been called again, more than
\* AI_PROCESS_INTERVAL frames after the call before: detection was switched
\* off and on, or the detector changed, in between
InferCalledAgain ==
    /\ observed.inferGap = AI_PROCESS_INTERVAL + 1
    /\ observed.sinceInfer = 0
    /\ emitted.frameCaptured # {}
    /\ m_aiFrameCounter = 0

(***************************************************************************)
(* The alert log                                                           *)
(***************************************************************************)
Count(seq, x) == Cardinality({ k \in DOMAIN seq : seq[k] = x })

\* C18 (as stated): every event delivered from a pipeline appends exactly
\* one alert at the tail of the list, with one alertAdded notification, and
\* leaves the alerts before it as they were.
EventYieldsOneAlert ==
    [][lastCall'.op \in AlertSignals
         => /\ Len(m_alerts') = Len(m_alerts) + 1
            /\ SubSeq(m_alerts', 1, Len(m_alerts)) = m_alerts
            /\ Count(lastCall'.notified, "alertAdded") = 1]_vars

\* C18 (amended): every event delivered from a pipeline appends at the tail
\* one alert of its type for its camera, followed by one snapshot alert
\* exactly when the auto-snapshot flag of that event is set and the stream
\* holds a frame; every append is notified by one countChanged and one
\* alertAdded, and the alerts before it stay as they were.
EventAlertsAppendedAtTail ==
    [][lastCall'.op \in AlertSignals
         => LET cam == lastCall'.cam
                s == streams'[cam]
                old == Len(m_alerts)
                added == Len(m_alerts') - old
            IN /\ added \in {1, 2}
               /\ SubSeq(m_alerts', 1, old) = m_alerts
               /\ m_alerts'[old + 1].type = AlertType(lastCall'.op)
               /\ m_alerts'[old + 1].cameraName = cam
               /\ added = 2 <=> (AutoSnapshot(s, lastCall'.op) /\ s.hasFrame)
               /\ added = 2 => /\ m_alerts'[old + 2].type = "snapshot"
                               /\ m_alerts'[old + 2].cameraName = cam
               /\ Count(lastCall'.notified, "countChanged") = added
               /\ Count(lastCall'.notified, "alertAdded") = added]_vars

\* C18 witness: with signals of two pipelines queued, a motion event of one
\* camera has appended its alert and a snapshot alert behind the alert of
\* the other camera, and a signal of the other camera waits in the queue
TwoPipelinesAppend ==
    /\ lastCall.op = "motionDetected"
    /\ Len(m_alerts) = 3
    /\ m_alerts[1].cameraName # lastCall.cam
    /\ m_alerts[2].type = "motion"
    /\ m_alerts[2].cameraName = lastCall.cam
    /\ m_alerts[3].type = "snapshot"
    /\ \E k \in DOMAIN toMain : toMain[k].cam # lastCall.cam

\* C17: the alerts of a camera stand in the list in capture order: an alert
\* derived from a frame is never behind an alert derived from a later frame
\* of the same camera.
AlertsInCaptureOrder ==
    \A i, j \in DOMAIN m_alerts :
      (i < j /\ m_alerts[i].cameraName = m_alerts[j].cameraName)
        => m_alerts[i].frame <= m_alerts[j].frame

\* C17 witness: the list holds two alerts of one frame followed by an alert
\* of the next frame, whose signal was queued while the first two waited
AlertsOfSuccessiveFrames ==
    /\ Len(m_alerts) = 3
    /\ m_alerts[1].frame = m_alerts[2].frame
    /\ m_alerts[3].frame = m_alerts[2].frame + 1
    /\ m_alerts[1].type = "motion"
    /\ m_alerts[2].type = "motion_roi"
    /\ m_alerts[3].type = "motion_roi"

\* the list without the rows (counted from 0) of a set, the others in order
RECURSIVE WithoutRows(_, _, _)
WithoutRows(alerts, rows, first) ==
    IF alerts = <<>> THEN <<>>
    ELSE (IF first \in rows THEN <<>> ELSE <<Head(alerts)>>)
         \o WithoutRows(Tail(alerts), rows, first + 1)

RowsOf(alerts, indices) ==
    LET valid == ValidIndices(alerts, indices) IN { valid[k] : k \in DOMAIN valid }

\* C19: removeAlerts(indices) removes exactly the alerts at the valid rows
\* given, as they stood before the call, and leaves the other alerts in
\* their order; entries out of range or not integers are ignored.
RemoveAlertsRemovesGivenRows ==
    [][lastCall'.op = "AlertLogModel::removeAlerts"
         => m_alerts' = WithoutRows(m_alerts, RowsOf(m_alerts, lastCall'.arg), 0)]_vars

ExportOps ==
    {"AlertLogModel::exportToCsv", "AlertLogModel::exportToJson",
     "AlertLogModel::exportSelectedToCsv", "AlertLogModel::exportSelectedToJson"}

\* C20: an export leaves the alert list as it was, whether it returns true
\* or false, and reports failure by its boolean return value alone (no
\* notification is emitted).
ExportLeavesAlerts ==
    [][lastCall'.op \in ExportOps
         => /\ m_alerts' = m_alerts
            /\ lastCall'.returned \in BOOLEAN
            /\ lastCall'.notified = <<>>]_vars

\* C20 witness: an export of selected rows of a list of alerts has written
\* rows and returned true
SelectedRowsExported ==
    /\ lastCall.op \in {"AlertLogModel::exportSelectedToCsv", "AlertLogModel::exportSelectedToJson"}
    /\ lastCall.returned
    /\ lastCall.posted # <<>>
    /\ Len(m_alerts) > Len(lastCall.posted)

\* C21: exportSnapshotAsPng(index, path) returns false and leaves the alert
\* list unchanged when the index is out of range, the alert has no image or
\* the write fails; on success it sets that alert's snapshotPath to path and
\* its message to "Snapshot saved", notifies that row alone, and leaves
\* every other alert and the length of the list unchanged.
ExportSnapshotMarksOneRow ==
    [][lastCall'.op = "AlertLogModel::exportSnapshotAsPng"
         => LET index == lastCall'.arg[1]
                filePath == lastCall'.arg[2]
                writable == lastCall'.arg[3]
                fails == \/ index < 0 \/ index >= Len(m_alerts)
                         \/ ~m_alerts[index + 1].hasImage
                         \/ ~writable
            IN  /\ lastCall'.returned = ~fails
                /\ fails => m_alerts' = m_alerts /\ lastCall'.notified = <<>>
                /\ ~fails =>
                     /\ Len(m_alerts') = Len(m_alerts)
                     /\ \A k \in DOMAIN m_alerts : k # index + 1 => m_alerts'[k] = m_alerts[k]
                     /\ m_alerts'[index + 1].snapshotPath = filePath
                     /\ m_alerts'[index + 1].message = "Snapshot saved"
                     /\ \A field \in DOMAIN m_alerts[index + 1] \ {"snapshotPath", "message"} :
                          m_alerts'[index + 1][field] = m_alerts[index + 1][field]
                     /\ lastCall'.notified = << <<"dataChanged", index, index>> >>]_vars

\* C21 witness: the snapshot of the second alert of three was saved, and the
\* alert before it is no snapshot
SnapshotSavedInTheMiddle ==
    /\ lastCall.op = "AlertLogModel::exportSnapshotAsPng"
    /\ lastCall.returned
    /\ lastCall.arg[1] = 1
    /\ Len(m_alerts) = 3
    /\ m_alerts[2].message = "Snapshot saved"
    /\ m_alerts[1].type = "motion"
    /\ m_alerts[3].message = "Snapshot captured (unsaved)"

\* the rows of a list whose id is a given one
RowsWithId(alerts, id) == { k \in DOMAIN alerts : alerts[k].id = id }

AddOps == {"AlertLogModel::addMotionAlert", "AlertLogModel::addSnapshotAlert"}

\* C22: an alert whose id equals the id of an alert already in the list is
\* appended like any other: the alerts before it stay as they were, the new
\* one is one more row with that id, and an export of the whole list that
\* succeeds writes every row, the rows of equal id included.
DuplicateIdsKept ==
    [][/\ lastCall'.op \in AddOps
          => /\ Len(m_alerts') = Len(m_alerts) + 1
             /\ SubSeq(m_alerts', 1, Len(m_alerts)) = m_alerts
             /\ Cardinality(RowsWithId(m_alerts', generateId))
                  = Cardinality(RowsWithId(m_alerts, generateId)) + 1
       /\ (lastCall'.op \in {"AlertLogModel::exportToCsv", "AlertLogModel::exportToJson"}
             /\ lastCall'.returned)
          => lastCall'.posted = m_alerts]_vars

\* C22 witness: a list in which two alerts carry one id and a third another
\* id was exported whole
DuplicateIdsExported ==
    /\ lastCall.op \in {"AlertLogModel::exportToCsv", "AlertLogModel::exportToJson"}
    /\ lastCall.returned
    /\ Len(lastCall.posted) = 3
    /\ Len(m_alerts) = 3
    /\ m_alerts[1].id = m_alerts[2].id
    /\ m_alerts[1] # m_alerts[2]
    /\ m_alerts[3].id # m_alerts[2].id

\* the camera entries in effect: those of the file, or the one default
\* entry when the file gives none
FileGivesEntries(file) == file.opens /\ file.json = "object" /\ file.cameras # <<>>

\* C23: with n camera entries in effect, slot k (0 <= k < 4) holds a
\* pipeline iff k < n and entry k is enabled; entries beyond the fourth are
\* ignored, a disabled entry keeps its slot, and cameraAvailable and the
\* camera1..camera4 accessors report an absent slot as unavailable / null.
SlotsFollowEntries ==
    cameraManager.constructed =>
      LET file == cameraManager.file
          n == IF FileGivesEntries(file) THEN Len(file.cameras) ELSE 1
          enabled(k) == IF FileGivesEntries(file) THEN file.cameras[k + 1].enabled ELSE TRUE
          present(k) == k < n /\ enabled(k)
      IN  /\ Len(cameraManager.m_cameras) = MAX_CAMERA_SLOTS
          /\ \A k \in 0 .. MAX_CAMERA_SLOTS - 1 :
               /\ cameraManager.m_cameras[k + 1] # NullStream <=> present(k)
               /\ (present(k) /\ FileGivesEntries(file))
                    => cameraManager.m_cameras[k + 1].m_id = file.cameras[k + 1].id
          /\ lastCall.op = "CameraManager::cameraAvailable"
               => lastCall.returned
                    = (/\ lastCall.arg[1] - 1 \in 0 .. MAX_CAMERA_SLOTS - 1
                       /\ present(lastCall.arg[1] - 1))
          /\ lastCall.op = "CameraManager::camera"
               => (~present(lastCall.arg[1]) => lastCall.returned = NullStream)

\* C23 witness: a file of five entries whose second one is disabled; the
\* second slot was asked for and is null, the third holds the third entry
DisabledEntryKeepsItsSlot ==
    /\ cameraManager.constructed
    /\ Len(cameraManager.file.cameras) = 5
    /\ ~cameraManager.file.cameras[2].enabled
    /\ cameraManager.file.cameras[3].enabled
    /\ cameraManager.file.cameras[5].enabled
    /\ lastCall.op = "CameraManager::camera"
    /\ lastCall.arg[1] = 1
    /\ lastCall.returned = NullStream
    /\ cameraManager.m_cameras[3].m_id = cameraManager.file.cameras[3].id

\* C24: when the file cannot be opened, is no JSON object or gives no camera
\* entries, the CameraManager is constructed all the same and holds one
\* pipeline, in slot 0: id "cam1", name "Default Camera", type "usb",
\* source "0", no ROI and no tripwire set on it.
DefaultCameraWithoutEntries ==
    (cameraManager.constructed /\ ~FileGivesEntries(cameraManager.file)) =>
      LET stream == cameraManager.m_cameras[1]
      IN  /\ Len(cameraManager.m_configs) = 1
          /\ cameraManager.m_configs[1].enabled
          /\ ~cameraManager.m_configs[1].hasRoi
          /\ ~cameraManager.m_configs[1].hasTripwire
          /\ stream # NullStream
          /\ stream.m_id = "cam1"
          /\ stream.m_cameraName = "Default Camera"
          /\ stream.m_sourceType = "usb"
          /\ stream.m_source = Variant(0)
          /\ \A k \in DOMAIN stream.posted :
               stream.posted[k][1] \notin {"setRoiPolygon", "setTripwire"}
          /\ \A k \in 2 .. MAX_CAMERA_SLOTS : cameraManager.m_cameras[k] = NullStream

\* C24 witness: the file is a JSON object without camera entries, and the
\* first slot was found available
ConstructedWithoutEntries ==
    /\ cameraManager.constructed
    /\ cameraManager.file = ConfigFile(TRUE, "object", <<>>)
    /\ lastCall.op = "CameraManager::cameraAvailable"
    /\ lastCall.arg[1] = 1
    /\ lastCall.returned

\* C25: the worker of a camera whose source is a URL opens that URL, and the
\* worker of a camera whose source is an integer opens that device index.
SourceKindFollowsConfig ==
    cameraManager.constructed =>
      \A k \in DOMAIN cameraManager.m_cameras :
        LET stream == cameraManager.m_cameras[k]
            config == cameraManager.m_configs[k]
        IN  stream # NullStream =>
              Opened(stream.worker) =
                IF config.source.isInt THEN <<"device", config.source.value>>
                ELSE <<"url", config.source.value>>

\* C26: the detector is touched by one thread at a time: no two threads
\* (two camera workers, or a worker and the main thread) are at once inside
\* infer or setConfidenceThreshold of the same ObjectDetector.
DetectorUsedByOneThread ==
    \A t1, t2 \in Threads :
      t1 # t2 => ~(executing[t1] # "none" /\ executing[t2] # "none")

\* the loitering events of an updateTracks invocation for a track, and
\* whether the invocation matched a detection to the track
LoiterEventsOf(em, i) == { e \in em.loiteringDetected : e.trackId = i }
MatchedIn(run, i) == \E k \in DOMAIN run.assigns : run.assigns[k].track = i

\* C27 (as stated): a loitering event for a track is emitted in the first
\* updateTracks invocation in which the track is inside the ROI with
\* now - enteredRoiMs >= 8000, so after every invocation in which that holds
\* the event of the visit is emitted or was emitted before.
LoiteringAtFirstDueInvocation ==
    [][trackerRun'.ran =>
         \A i \in DOMAIN m_tracks' :
           LET track == m_tracks'[i]
               sentBefore == /\ i \in DOMAIN m_tracks
                             /\ m_tracks[i].insideRoi
                             /\ m_tracks[i].loiterAlertSent
           IN  LoiterEventsOf(emitted', i) # {}
                 <=> /\ track.insideRoi
                     /\ trackerRun'.time - track.enteredRoiMs >= LOITERING_THRESHOLD_MS
                     /\ ~sentBefore]_vars

\* C27 (amended): a loitering event for a track is emitted exactly in the
\* first updateTracks invocation that matches a detection to the track while
\* it is inside the ROI with now - enteredRoiMs >= 8000 and no event of this
\* visit was emitted before; it is one event, and its durationMs is
\* now - enteredRoiMs, hence at least 8000.
LoiteringAtFirstDueMatch ==
    [][trackerRun'.ran =>
         \A i \in DOMAIN m_tracks' :
           LET track == m_tracks'[i]
               events == LoiterEventsOf(emitted', i)
               sentBefore == /\ i \in DOMAIN m_tracks
                             /\ m_tracks[i].insideRoi
                             /\ m_tracks[i].loiterAlertSent
           IN  /\ events # {}
                 <=> /\ MatchedIn(trackerRun', i)
                     /\ track.insideRoi
                     /\ trackerRun'.time - track.enteredRoiMs >= LOITERING_THRESHOLD_MS
                     /\ ~sentBefore
               /\ Cardinality(events) <= 1
               /\ \A e \in events :
                    /\ e.durationMs = trackerRun'.time - track.enteredRoiMs
                    /\ e.durationMs >= LOITERING_THRESHOLD_MS]_vars

\* C27 witness: a loitering event whose duration is past the threshold: the
\* track was not matched, or no inference ran, when the threshold was reached
LoiteringEmittedLate ==
    /\ trackerRun.ran
    /\ \E e \in emitted.loiteringDetected :
         /\ e.durationMs > LOITERING_THRESHOLD_MS
         /\ e.trackId \in DOMAIN m_tracks
         /\ m_tracks[e.trackId].loiterAlertSent

\* C28: track ids are positive, strictly increasing in creation order and
\* never reused while the pipeline lives: the id counter never goes back, in
\* no step (stop, start and the AI switch included), every track in the map
\* has an id below the counter, and a track created by updateTracks gets an
\* id at or above the counter before the invocation (hence above every id
\* issued before) and above the ids created before it in the invocation.
TrackIdsNeverReused ==
    [][/\ m_nextTrackId' >= m_nextTrackId
       /\ m_nextTrackId > 0
       /\ \A i \in DOMAIN m_tracks' : m_tracks'[i].id = i /\ i > 0 /\ i < m_nextTrackId'
       /\ trackerRun'.ran =>
            \A k \in DOMAIN trackerRun'.assigns :
              trackerRun'.assigns[k].created =>
                /\ trackerRun'.assigns[k].track >= m_nextTrackId
                /\ trackerRun'.assigns[k].track \notin DOMAIN m_tracks
                /\ \A j \in 1 .. k - 1 :
                     trackerRun'.assigns[j].created
                       => trackerRun'.assigns[j].track < trackerRun'.assigns[k].track]_vars

\* C28 witness: updateTracks creates track 2 in a running pipeline once
\* track 1 has gone stale, and the map then holds track 2 alone
TrackCreatedAfterEviction ==
    /\ trackerRun.ran
    /\ m_running
    /\ DOMAIN m_tracks = {2}
    /\ \E k \in DOMAIN trackerRun.assigns :
         trackerRun.assigns[k].created /\ trackerRun.assigns[k].track = 2
    /\ m_tracks[2].firstSeenMs > Epoch0 + TRACK_TIMEOUT_MS


(***************************************************************************)
(* The capability setters of a stream and the values of its worker         *)
(***************************************************************************)
CapabilitySlots ==
    {"setMotionEnabled", "setMotionSensitivity", "setRoiPolygon", "clearRoi",
     "setTripwire", "clearTripwire", "setAiEnabled"}

\* the capability values kept on the stream of the worker's camera
StreamValues ==
    LET s == streams[WorkerCamera]
    IN  [motionEnabled |-> s.motionEnabled, motionSensitivity |-> s.motionSensitivity,
         aiEnabled |-> s.aiEnabled, roiNorm |-> s.roiNorm, hasRoi |-> s.hasRoi,
         tripwire |-> s.tripwire, hasTripwire |-> s.hasTripwire]

NoCapabilityPending == \A k \in DOMAIN toWorker : toWorker[k][1] \notin CapabilitySlots

\* C29: the capability setters of a stream reach its worker as queued slots
\* in the order they were issued (a setter appends to the worker's queue,
\* the worker takes the oldest entry), the worker's capability values change
\* only in a step that runs such a slot, never inside captureFrame, and
\* whenever no capability slot is waiting the worker holds, for every
\* capability, the value last set on the stream
SettersReachWorkerInOrder ==
    /\ [](NoCapabilityPending => WorkerValues = StreamValues)
    /\ [][/\ StreamValues' # StreamValues
             => /\ Len(toWorker') = Len(toWorker) + 1
                /\ SubSeq(toWorker', 1, Len(toWorker)) = toWorker
                /\ toWorker'[Len(toWorker')] = lastCall'.posted[1]
          /\ WorkerValues' # WorkerValues
             => /\ toWorker # <<>>
                /\ toWorker' = Tail(toWorker)
                /\ Head(toWorker)[1] \in CapabilitySlots
                /\ lastCall'.op = Head(toWorker)[1]]_vars

\* after a frame the stream was asked for a sensitivity of 150 with a region
\* set; the worker has run both slots and holds the clamped value
SettersAppliedAfterFrame ==
    /\ observed.frameNo[WorkerCamera] > 0
    /\ toWorker = <<>>
    /\ lastCall.op = "setMotionSensitivity"
    /\ lastCall.before.motionSensitivity = 50
    /\ m_motionSensitivity = 100
    /\ streams[WorkerCamera].motionSensitivity = 100
    /\ m_hasRoi
    /\ streams[WorkerCamera].hasRoi


UpdatedIn(run) == { run.assigns[k].track : k \in DOMAIN run.assigns }

\* C32: for every track an invocation updates while a tripwire is set,
\* trackCrossedTripwire is emitted iff the centroid differs from the previous
\* one, at least TRIPWIRE_ALERT_DEBOUNCE_MS have passed since the track's
\* last event, both sides are above LINE_EPSILON in size and of opposite
\* sign; the direction is "left to right" from the negative to the positive
\* side and "right to left" the other way, and lastTripwireAlertMs becomes
\* the time of the invocation when the event is emitted and stays otherwise
LineCrossingAsStated ==
    [][trackerRun'.ran /\ m_hasTripwire
         => \A i \in UpdatedIn(trackerRun') :
              LET after == m_tracks'[i]
                  stamp == IF i \in DOMAIN m_tracks THEN m_tracks[i].lastTripwireAlertMs ELSE 0
                  prevSide == computeSideOfLine(after.prevCentroid, m_tripwire)
                  curSide == computeSideOfLine(after.centroid, m_tripwire)
                  due == /\ after.centroid # after.prevCentroid
                         /\ now - stamp >= TRIPWIRE_ALERT_DEBOUNCE_MS
                         /\ Abs(prevSide) * LINE_EPSILON_DEN > GridN * GridN
                         /\ Abs(curSide) * LINE_EPSILON_DEN > GridN * GridN
                         /\ prevSide * curSide < 0
                  events == { e \in emitted'.trackCrossedTripwire : e.trackId = i }
              IN  /\ (events # {}) <=> due
                  /\ Cardinality(events) <= 1
                  /\ \A e \in events :
                       /\ prevSide < 0 /\ 0 < curSide => e.direction = "left to right"
                       /\ curSide < 0 /\ 0 < prevSide => e.direction = "right to left"
                  /\ after.lastTripwireAlertMs = IF due THEN now ELSE stamp]_vars

\* a track that crossed before crosses back just as the interval has passed:
\* the event names the direction and the track is stamped again
CrossedBackAtInterval ==
    /\ trackerRun.ran
    /\ \E e \in emitted.trackCrossedTripwire :
         /\ e.direction = "right to left"
         /\ e.gap = TRIPWIRE_ALERT_DEBOUNCE_MS
         /\ m_tracks[e.trackId].lastTripwireAlertMs = now


(***************************************************************************)
(* A source error and the end of the session                               *)
(***************************************************************************)
\* the worker has just emitted errorOccurred while the stream is running
SourceErrorWhileRunning ==
    /\ emitted.errorOccurred # {}
    /\ streams[WorkerCamera].running

\* the stream is not running, the capture timer is stopped and the capture
\* handle is released
PipelineStopped ==
    /\ ~streams[WorkerCamera].running
    /\ ~timerActive
    /\ ~captureOpened

\* the stream has just been started
Restarted ==
    /\ lastCall.op = "CameraStream::start"
    /\ lastCall.posted # <<>>

\* C31 as stated: after a source error on a running pipeline the pipeline is
\* stopped in the end, whatever is asked of the stream meanwhile
ErrorStopsPipeline == SourceErrorWhileRunning ~> PipelineStopped

\* C31: after a source error on a running pipeline the pipeline is stopped
\* in the end, unless the stream is started again first
ErrorStopsPipelineUnlessRestarted == SourceErrorWhileRunning ~> (PipelineStopped \/ Restarted)

\* a frame read failed on a running pipeline and the pipeline is stopped:
\* the error was delivered, the stream stopped itself and the worker ran stop
StoppedByReadError ==
    /\ PipelineStopped
    /\ streams[WorkerCamera].status = Stopped
    /\ lastCall.op = "CaptureWorker::stop"
    /\ lastCall.before[1]
    /\ observed.emptyReads > 0
    /\ toWorker = <<>>
    /\ toMain = <<>>


(***************************************************************************)
(* The three auto-snapshot flags                                           *)
(***************************************************************************)
SnapshotFlags(s) == <<s.autoSnapshotOnMotion, s.autoSnapshotOnRoi, s.autoSnapshotOnTripwire>>

\* the flag of the kind of alert a signal is logged as
FlagOfKind(s, signal) ==
    CASE AlertType(signal) = "motion" -> s.autoSnapshotOnMotion
      [] AlertType(signal) = "motion_roi" -> s.autoSnapshotOnRoi
      [] AlertType(signal) = "tripwire" -> s.autoSnapshotOnTripwire

\* the alerts a step has appended are the alert of the signal's kind and,
\* iff wanted, a snapshot alert right after it
AppendedWithSnapshot(wanted) ==
    /\ Len(m_alerts') = Len(m_alerts) + (IF wanted THEN 2 ELSE 1)
    /\ SubSeq(m_alerts', 1, Len(m_alerts)) = m_alerts
    /\ m_alerts'[Len(m_alerts) + 1].type = AlertType(lastCall'.op)
    /\ wanted => m_alerts'[Len(m_alerts) + 2].type = "snapshot"

\* a setter of one flag leaves the other two flags and the log as they are
SetterKeepsOtherFlags ==
    /\ lastCall'.op = "CameraStream::setAutoSnapshotOnMotion"
         => /\ SnapshotFlags(streams'[lastCall'.cam])[2] = SnapshotFlags(streams[lastCall'.cam])[2]
            /\ SnapshotFlags(streams'[lastCall'.cam])[3] = SnapshotFlags(streams[lastCall'.cam])[3]
            /\ m_alerts' = m_alerts
    /\ lastCall'.op = "CameraStream::setAutoSnapshotOnRoi"
         => /\ SnapshotFlags(streams'[lastCall'.cam])[1] = SnapshotFlags(streams[lastCall'.cam])[1]
            /\ SnapshotFlags(streams'[lastCall'.cam])[3] = SnapshotFlags(streams[lastCall'.cam])[3]
            /\ m_alerts' = m_alerts
    /\ lastCall'.op = "CameraStream::setAutoSnapshotOnTripwire"
         => /\ SnapshotFlags(streams'[lastCall'.cam])[1] = SnapshotFlags(streams[lastCall'.cam])[1]
            /\ SnapshotFlags(streams'[lastCall'.cam])[2] = SnapshotFlags(streams[lastCall'.cam])[2]
            /\ m_alerts' = m_alerts

\* C33 as stated: a motion alert is followed by a snapshot alert iff the
\* flag of motion is set and the stream holds a frame, a motion_roi alert
\* iff the flag of the ROI is set, a tripwire alert of either origin iff the
\* flag of the tripwire is set; a setter changes its own flag only
SnapshotFollowsFlag ==
    [][/\ lastCall'.op \in FlagSignals
            => AppendedWithSnapshot(
                   /\ FlagOfKind(streams[lastCall'.cam], lastCall'.op)
                   /\ AlertType(lastCall'.op) = "motion" => streams[lastCall'.cam].hasFrame)
       /\ SetterKeepsOtherFlags]_vars

\* C33: an alert of each of the three kinds is followed by a snapshot alert
\* iff the flag of its kind is set and the stream holds a frame; a setter
\* changes its own flag only
SnapshotFollowsFlagAndFrame ==
    [][/\ lastCall'.op \in FlagSignals
            => AppendedWithSnapshot(
                   /\ FlagOfKind(streams[lastCall'.cam], lastCall'.op)
                   /\ streams[lastCall'.cam].hasFrame)
       /\ SetterKeepsOtherFlags]_vars

\* with the flag of the tripwire alone set and a frame held, a tripwire
\* alert and its snapshot follow a motion alert that has none
SnapshotAfterTripwireOnly ==
    /\ SnapshotFlags(streams[WorkerCamera]) = <<FALSE, FALSE, TRUE>>
    /\ streams[WorkerCamera].hasFrame
    /\ Len(m_alerts) = 3
    /\ m_alerts[1].type = "motion"
    /\ m_alerts[2].type = "tripwire"
    /\ m_alerts[3].type = "snapshot"
    /\ lastCall.op \in {"tripwireCrossed", "trackCrossedTripwire"}


(***************************************************************************)
(* Snapshots on request                                                    *)
(***************************************************************************)
\* takeSnapshot returns true and one snapshot alert with the frame held is
\* appended iff the stream runs and holds a frame; otherwise it returns false
\* and the log is as it was
SnapshotIffRunningWithFrame ==
    lastCall'.op = "CameraStream::takeSnapshot" =>
        LET s == streams[lastCall'.cam]
        IN IF s.running /\ s.hasFrame
           THEN /\ lastCall'.returned
                /\ Len(m_alerts') = Len(m_alerts) + 1
                /\ SubSeq(m_alerts', 1, Len(m_alerts)) = m_alerts
                /\ m_alerts'[Len(m_alerts')].type = "snapshot"
                /\ m_alerts'[Len(m_alerts')].cameraName = lastCall'.cam
                /\ m_alerts'[Len(m_alerts')].hasImage
                /\ m_alerts'[Len(m_alerts')].frame = s.frame
           ELSE /\ ~lastCall'.returned
                /\ m_alerts' = m_alerts

\* the frame a stream holds was captured after the last start; frame numbers
\* tell the frames apart as long as the count has not reached MaxFrames
HeldFrameOfSession(cam) ==
    observed.frameNo[cam] < MaxFrames => streams[cam].frame > observed.sessionFrom[cam]

\* C34: takeSnapshot succeeds, with one snapshot alert of the current frame,
\* iff the stream runs and holds a frame, and fails without an alert
\* otherwise; the frame of a successful call was captured in the current
\* running session
TakeSnapshotOfCurrentSession ==
    [][/\ SnapshotIffRunningWithFrame
       /\ (lastCall'.op = "CameraStream::takeSnapshot" /\ lastCall'.returned)
            => HeldFrameOfSession(lastCall'.cam)]_vars


(***************************************************************************)
(* The status of a stopped stream                                          *)
(***************************************************************************)
\* C35: a stream that is not running never shows the status "Running": no
\* frame the worker produced before it ran the stop request changes the
\* status after stop() has returned
StoppedStreamNotShownRunning ==
    \A cam \in Cameras : ~streams[cam].running => streams[cam].status # Running


(***************************************************************************)
(* The detections published by a stream                                    *)
(***************************************************************************)
\* C36: while detection is switched off on a stream, the list of detections
\* it publishes is empty: a result the worker produced before it ran the
\* disable message does not fill it again
NoDetectionsWhileAiDisabled ==
    \A cam \in Cameras : ~streams[cam].aiEnabled => streams[cam].detections = 0


(***************************************************************************)
(* The confidence threshold of each pipeline                               *)
(***************************************************************************)
\* the worker of camera cam holds a detector to infer with
Infers(cam) ==
    /\ cameraManager.constructed
    /\ cameraManager.m_cameras[cam] # NullStream
    /\ cameraManager.m_cameras[cam].worker.m_detector # "null"

\* the threshold of the detector the pipelines infer with
AppliedThreshold == IF cameraManager.constructed THEN cameraManager.m_confThreshold ELSE 50

\* C37: a threshold set on one pipeline, once its worker has applied it,
\* leaves the threshold applied to the inference of every other pipeline as
\* it was, and a pipeline whose worker has run every posted slot infers with
\* its own aiConfidenceThreshold
ThresholdsDoNotInterfere ==
    /\ [][\A cam \in Cameras :
            (lastCall'.cam = cam /\ lastCall'.op = "setAiConfidenceThreshold")
              => \A other \in Cameras \ {cam} :
                   Infers(other) => AppliedThreshold' = AppliedThreshold]_vars
    /\ [](\A cam \in Cameras :
            (Infers(cam) /\ cameraManager.m_cameras[cam].posted = <<>>)
              => AppliedThreshold = cameraManager.m_cameras[cam].m_aiConfidenceThreshold)


(***************************************************************************)
(* The fields of a track                                                   *)
(***************************************************************************)
\* the ROI and time fields of one track agree
TrackConsistent(track) ==
    /\ track.loiterAlertSent => track.insideRoi
    /\ ~track.insideRoi => track.enteredRoiMs = 0
    /\ track.insideRoi => track.enteredRoiMs <= track.lastSeenMs
    /\ track.firstSeenMs <= track.lastSeenMs

\* C38: every track of the map has loiterAlertSent only inside the ROI,
\* enteredRoiMs = 0 outside it and enteredRoiMs <= lastSeenMs inside it, and
\* firstSeenMs <= lastSeenMs; the lastSeenMs of a track never decreases
TracksStayConsistent ==
    /\ [](\A i \in DOMAIN m_tracks : TrackConsistent(m_tracks[i]))
    /\ [][\A i \in DOMAIN m_tracks \cap DOMAIN m_tracks' :
            m_tracks'[i].lastSeenMs >= m_tracks[i].lastSeenMs]_vars

\* updateTracks has run on a track that was born outside the ROI, entered
\* it later and has loitered there
LoiteredAfterEntering ==
    /\ trackerRun.ran
    /\ \E i \in DOMAIN m_tracks :
         /\ m_tracks[i].loiterAlertSent
         /\ m_tracks[i].firstSeenMs < m_tracks[i].enteredRoiMs
         /\ m_tracks[i].enteredRoiMs < m_tracks[i].lastSeenMs


(***************************************************************************)
(* Tracks past the timeout                                                 *)
(***************************************************************************)
\* C39: no detection is assigned to a track of the map that was last seen
\* more than TRACK_TIMEOUT_MS before the invocation of updateTracks
NoStaleTrackMatched ==
    [][trackerRun'.ran =>
         \A k \in DOMAIN trackerRun'.assigns :
            LET a == trackerRun'.assigns[k]
            IN  (~a.created /\ a.track \in DOMAIN m_tracks)
                  => trackerRun'.time - m_tracks[a.track].lastSeenMs <= TRACK_TIMEOUT_MS]_vars


(***************************************************************************)
(* The run states of a stream and its worker                               *)
(***************************************************************************)
\* no slot waits for the worker and no signal waits for the stream
NothingQueued == toWorker = <<>> /\ toMain = <<>>

\* C40: once every queued message between a stream and its worker has been
\* processed, the stream runs iff its worker runs, and the worker runs iff
\* its capture is open and its timer is active
RunStatesConverge ==
    NothingQueued =>
        /\ streams[WorkerCamera].running = m_running
        /\ m_running = (captureOpened /\ timerActive)

\* a stream restarted by a change of source after frames had been captured,
\* with its worker running on the new source and nothing queued
RunningAfterSourceChange ==
    /\ NothingQueued
    /\ streams[WorkerCamera].running
    /\ m_running
    /\ streams[WorkerCamera].source.m_isUrlSource
    /\ observed.sessionFrom[WorkerCamera] > 0
    /\ observed.frameNo[WorkerCamera] > observed.sessionFrom[WorkerCamera]

====
